---- MODULE Spec2Model ----
(***************************************************************************)
(* Model of the MRP aggregation engine of vent-mrp-mvp                     *)
(* (modules/mrp/service.py, MRPService.compute_work_order) together with   *)
(* the geometry validation of modules/products/schemas.py.                 *)
(*                                                                         *)
(* Numbers: the code computes with Python floats.  The model computes with *)
(* exact rationals [n, d] kept in lowest terms, so that equal values are   *)
(* equal records.  Rounding of binary floating point is not modelled.      *)
(* Optional values (Python None) are modelled as sequences: <<>> is None   *)
(* and <<v>> is the value v.                                               *)
(***************************************************************************)
EXTENDS Integers, Sequences, FiniteSets, TLC

\* ---------------------------------------------------------------- bounds
\* Largest number of lines of a work order handed to the engine.
MaxLines == 2

\* ------------------------------------------------------- exact rationals
RECURSIVE GCD(_, _)
GCD(a, b) == IF b = 0 THEN a ELSE GCD(b, a % b)

Abs(x) == IF x < 0 THEN 0 - x ELSE x

\* n/d in lowest terms with a positive denominator (d /= 0).
Rat(n, d) ==
    LET g == GCD(Abs(n), Abs(d))
        s == IF d < 0 THEN 0 - 1 ELSE 1
    IN  [n |-> (s * n) \div g, d |-> (s * d) \div g]

RInt(k) == [n |-> k, d |-> 1]
RZero == RInt(0)
RAdd(x, y) ==
    \* over the least common denominator, so that sums stay small
    LET g == GCD(x.d, y.d)
    IN  Rat(x.n * (y.d \div g) + y.n * (x.d \div g), (x.d \div g) * y.d)
RMul(x, y) ==
    \* cross-reduce first so that intermediate products stay small
    LET a == Rat(x.n, y.d)
        b == Rat(y.n, x.d)
    IN  [n |-> a.n * b.n, d |-> a.d * b.d]
RDiv(x, y) == RMul(x, Rat(y.d, y.n))
RLe(x, y) == x.n * y.d <= y.n * x.d
RLt(x, y) == x.n * y.d < y.n * x.d

\* ------------------------------------------------------ optional values
None == <<>>
Some(v) == <<v>>
IsNone(o) == o = <<>>
Val(o) == o[1]

\* --------------------------------------------------------- configuration
\* core/settings.py: Settings.steel_density_kg_m3 (default) and waste_factor.
SteelDensityDefault == 7850

\* The default configuration and the one of tests/test_mrp.py
\* (waste_factor = 0.05).
SettingsSet ==
    { [steel_density_kg_m3 |-> RInt(SteelDensityDefault), waste_factor |-> w] :
        w \in {RZero, Rat(5, 100)} }

\* ------------------------------------------------------------- products
\* modules/products/types.py is not part of the sources; the value of
\* ProductType.RECTANGULAR_DUCT is the one the tests store.
RECTANGULAR_DUCT == "RECTANGULAR_DUCT"

\* Product.attributes is a JSON object: a function from field names to
\* values; a field may be missing.  Numeric fields hold an optional rational.
Attributes(w, h, l, t, ins, insT) ==
    [width_mm |-> w, height_mm |-> h, length_mm |-> l, thickness_mm |-> t,
     insulation_enabled |-> ins, insulation_thickness_mm |-> insT]

\* The geometry of the tests (500 x 400 x 1000 mm, 0.7 mm sheet, insulated).
AttrInsulated ==
    Attributes(Some(RInt(500)), Some(RInt(400)), Some(RInt(1000)),
               Some(Rat(7, 10)), TRUE, Some(RInt(20)))
\* A bare duct.
AttrBare ==
    Attributes(Some(RInt(300)), Some(RInt(200)), Some(RInt(1500)),
               Some(RInt(1)), FALSE, None)
\* tests/test_mrp.py, test_validation_fails_for_invalid_dimension: width 0.
AttrZeroWidth ==
    Attributes(Some(RInt(0)), Some(RInt(400)), Some(RInt(1000)),
               Some(Rat(7, 10)), FALSE, None)

\* modules/products/models.py BOMItem.
BOMItem(name, unit, qpu, cost) ==
    [name |-> name, unit |-> unit, quantity_per_unit |-> qpu, cost_per_unit |-> cost]

\* modules/products/models.py Product.
Product(id, name, type, attrs, bom) ==
    [id |-> Some(id), name |-> name, product_type |-> type,
     attributes |-> attrs, bom_items |-> bom]

\* The products the work orders of the model are built from.  They cover:
\* one key priced at two different costs (1, 3), a key priced on one product
\* and unpriced on another (1, 2) or within one product (4), units None and
\* "" (3, 4, 9), a zero cost (9), two keys of equal cost (3), no BOM (5), an
\* unsupported type (6, 8), an invalid geometry (7, 8), and two keys of
\* equal cost the second of which is met unpriced before the first (10).
Catalog ==
    { Product(1, "Kanal A", RECTANGULAR_DUCT, AttrInsulated,
              << BOMItem("Flans", Some("adet"), Rat(1, 2), Some(RInt(100))) >>),
      Product(2, "Kanal B", RECTANGULAR_DUCT, AttrInsulated,
              << BOMItem("Flans", Some("adet"), Rat(1, 2), None) >>),
      Product(3, "Kanal C", RECTANGULAR_DUCT, AttrBare,
              << BOMItem("Flans", Some("adet"), RInt(2), Some(RInt(50))),
                 BOMItem("Conta", None, RInt(1), Some(RInt(100))) >>),
      Product(4, "Kanal D", RECTANGULAR_DUCT, AttrBare,
              << BOMItem("Conta", Some(""), RInt(2), None),
                 BOMItem("Conta", None, RInt(1), Some(RInt(100))) >>),
      Product(5, "Kanal E", RECTANGULAR_DUCT, AttrBare, << >>),
      Product(6, "Boru", "ROUND_DUCT", AttrInsulated,
              << BOMItem("Flans", Some("adet"), RInt(1), Some(RInt(100))) >>),
      Product(7, "Kanal F", RECTANGULAR_DUCT, AttrZeroWidth,
              << BOMItem("Flans", Some("adet"), RInt(1), Some(RInt(100))) >>),
      Product(8, "Boru G", "ROUND_DUCT", AttrZeroWidth, << >>),
      Product(9, "Kanal H", RECTANGULAR_DUCT, AttrInsulated,
              << BOMItem("Conta", Some(""), RInt(1), Some(RInt(0))) >>),
      Product(10, "Kanal I", RECTANGULAR_DUCT, AttrBare,
              << BOMItem("Flans", Some("adet"), RInt(1), None),
                 BOMItem("Conta", None, RInt(1), Some(RInt(100))),
                 BOMItem("Flans", Some("adet"), RInt(2), Some(RInt(50))) >>) }

\* Line quantities (WorkOrderLine.quantity, an integer > 0).
Quantities == {1, 3}

\* modules/work_orders/models.py WorkOrderLine.
WorkOrderLine(id, product_id, quantity, product) ==
    [id |-> id, product_id |-> product_id, quantity |-> quantity, product |-> product]

\* modules/work_orders/models.py WorkOrder; product_id, quantity and product
\* are the legacy single-product fields.
WorkOrder(lines, product_id, quantity, product) ==
    [id |-> Some(1), project_name |-> "Proje X", lines |-> lines,
     product_id |-> product_id, quantity |-> quantity, product |-> product]

\* Persisted lines carry their own ids, here their position; f gives the
\* product and the quantity of each line.
Lines(f) ==
    [i \in DOMAIN f |-> WorkOrderLine(Some(i), f[i][1].id, f[i][2], f[i][1])]

\* Legacy fields of a work order without lines: each of the three may be
\* missing, and product_id and quantity may be 0.
LegacyProducts == { p \in Catalog : Val(p.id) \in {1, 6, 7} }
LegacyFields ==
    { <<pid, q, p>> : pid \in {None, Some(0), Some(1)},
                      q \in {None, Some(0), Some(3)},
                      p \in {None} \cup { Some(x) : x \in LegacyProducts } }
\* Legacy fields of a work order with lines: unset (create_work_order) or
\* still set (a legacy row after migrate_legacy_work_orders).
LegacyFieldsWithLines ==
    { <<None, None, None>>,
      <<Some(1), Some(3), Some(CHOOSE p \in Catalog : Val(p.id) = 1)>> }

\* ------------------------------------------- geometry-centred inputs
\* Raw geometry objects (the spec of a product payload, the attributes of a
\* transient Product): every dimension has a valid and an invalid value,
\* the sheet thickness sits on and around its bounds, and
\* insulation_thickness_mm may be missing, null, 0 or positive.
GeoWidths == {RInt(0), RInt(500)}
GeoHeights == {RInt(0), RInt(400)}
GeoLengths == {RInt(0 - 5), RInt(1000), RInt(1500)}
GeoThicknesses == {RZero, Rat(7, 10), RInt(20), RInt(21)}
GeoInsulationThicknesses == {None, Some(RZero), Some(RInt(20))}

GeoAttributes ==
    LET full == { Attributes(Some(w), Some(h), Some(l), Some(t), ins, insT) :
                    w \in GeoWidths, h \in GeoHeights, l \in GeoLengths,
                    t \in GeoThicknesses, ins \in BOOLEAN,
                    insT \in GeoInsulationThicknesses }
        \* the same objects without the key insulation_thickness_mm
        missing == { [f \in DOMAIN a \ {"insulation_thickness_mm"} |-> a[f]] :
                       a \in { x \in full : x.insulation_thickness_mm = None } }
    IN  full \cup missing

\* The BOM of the tests: 0.5 flanges per unit at 100 each.
TestBom == << BOMItem("Flans", Some("adet"), Rat(1, 2), Some(RInt(100))) >>

\* The body of POST /products (schemas.ProductCreate), as received.
ProductPayloads ==
    { [name |-> "Kanal", product_type |-> t, spec |-> a, bom_items |-> TestBom] :
        t \in {RECTANGULAR_DUCT, "ROUND_DUCT"}, a \in GeoAttributes }

\* A Product that was not persisted (tests/test_mrp.py): it has no id.
TransientProduct(payload) ==
    [id |-> None, name |-> payload.name, product_type |-> payload.product_type,
     attributes |-> payload.spec, bom_items |-> payload.bom_items]

\* The quantity of the tests' work order.
TestQuantity == 10

CatalogProduct(id) == CHOOSE p \in Catalog : p.id = Some(id)

\* The work orders built around one product p: p alone, p after or before
\* a valid line, p after a line of invalid geometry, and the legacy forms
\* (bare product and quantity, with and without product_id).
WorkOrdersAround(p) ==
    LET geo == WorkOrderLine(None, p.id, TestQuantity, p)
        valid == WorkOrderLine(None, Some(1), 1, CatalogProduct(1))
        zero == WorkOrderLine(None, Some(7), 1, CatalogProduct(7))
    IN  { WorkOrder(ls, None, None, None) :
            ls \in { <<geo>>, <<valid, geo>>, <<geo, valid>>, <<zero, geo>> } }
        \cup { WorkOrder(<< >>, pid, Some(TestQuantity), Some(p)) :
                 pid \in {None, Some(1)} }

\* ------------------------------------------------------------- errors
\* core/errors.py ValidationAppException: message, HTTP status 422, code.
\* (The messages are Turkish in the source; they are written without
\* diacritics here.)
ValidationAppException(message) ==
    [message |-> message, status_code |-> 422, code |-> "validation_error"]

MsgNoLines == "Is emri satiri bulunamadi"
MsgUnsupportedType == "Urun tipi icin hesaplama tanimli degil"
MsgInvalidGeometry == "Urun olculeri gecersiz"

\* ------------------------------------------------- geometry validation
\* Field(..., gt=0): the field is required, not None and > 0.
RequiredPositive(attrs, f) ==
    /\ f \in DOMAIN attrs
    /\ ~IsNone(attrs[f])
    /\ RLt(RZero, Val(attrs[f]))

\* Mutant: a sheet of any positive thickness passes.
check_thickness_NoUpperBound(v) == RLt(RZero, v)

\* RectangularDuctSpec.check_thickness: rejects v <= 0 or v > 20.
check_thickness(v) == ~(RLe(v, RZero) \/ RLt(RInt(20), v))

\* insulation_enabled defaults to False when the field is missing.
InsulationEnabled(attrs) ==
    IF "insulation_enabled" \in DOMAIN attrs THEN attrs.insulation_enabled ELSE FALSE

\* Mutant: a None thickness passes when insulation_enabled is set.
validate_insulation_thickness_NoneAllowed(v, enabled) ==
    ~(enabled /\ ~IsNone(v) /\ RLe(Val(v), RZero))

\* RectangularDuctSpec.validate_insulation_thickness: rejects a None or
\* non-positive thickness when insulation_enabled is set.
validate_insulation_thickness(v, enabled) ==
    ~(enabled /\ (IsNone(v) \/ RLe(Val(v), RZero)))

\* RectangularDuctSpec(**attributes) does not raise ValidationError.  A
\* validator runs only on a supplied value: a missing
\* insulation_thickness_mm takes its default None unvalidated.
SpecIsValid(attrs) ==
    /\ RequiredPositive(attrs, "width_mm")
    /\ RequiredPositive(attrs, "height_mm")
    /\ RequiredPositive(attrs, "length_mm")
    /\ RequiredPositive(attrs, "thickness_mm")
    /\ check_thickness(Val(attrs.thickness_mm))
    /\ ("insulation_thickness_mm" \in DOMAIN attrs =>
            validate_insulation_thickness(attrs.insulation_thickness_mm,
                                          InsulationEnabled(attrs)))

\* The validated RectangularDuctSpec of valid attributes.
RectangularDuctSpec(attrs) ==
    [width_mm |-> Val(attrs.width_mm),
     height_mm |-> Val(attrs.height_mm),
     length_mm |-> Val(attrs.length_mm),
     thickness_mm |-> Val(attrs.thickness_mm),
     insulation_enabled |-> InsulationEnabled(attrs),
     insulation_thickness_mm |->
        IF "insulation_thickness_mm" \in DOMAIN attrs
        THEN attrs.insulation_thickness_mm ELSE None]

\* ---------------------------------------------------- the MRP engine
\* Python truth value of an optional integer: None and 0 are false.
Truthy(o) == ~IsNone(o) /\ Val(o) /= 0

\* Mutant: the legacy product is used without a product_id.
LegacyUsable_IgnoresProductId(wo) == Truthy(wo.quantity) /\ ~IsNone(wo.product)

\* compute_work_order, the legacy fallback: the lines the engine works on,
\* or none when the work order has no line and no usable legacy product.
LegacyUsable(wo) == Truthy(wo.product_id) /\ Truthy(wo.quantity) /\ ~IsNone(wo.product)

EffectiveLines(wo) ==
    IF Len(wo.lines) > 0 THEN wo.lines
    ELSE IF LegacyUsable(wo)
         THEN << WorkOrderLine(None, wo.product_id, Val(wo.quantity), Val(wo.product)) >>
         ELSE << >>

\* Mutant: both checks of a line fail with the same message.
LineError_OneMessage(line) ==
    IF line.product.product_type /= RECTANGULAR_DUCT THEN Some(MsgInvalidGeometry)
    ELSE IF ~SpecIsValid(line.product.attributes) THEN Some(MsgInvalidGeometry)
    ELSE None

\* The first check of a line that fails, as its message, or None.
LineError(line) ==
    IF line.product.product_type /= RECTANGULAR_DUCT THEN Some(MsgUnsupportedType)
    ELSE IF ~SpecIsValid(line.product.attributes) THEN Some(MsgInvalidGeometry)
    ELSE None

base_sheet_area(spec) ==
    RDiv(RMul(RMul(RInt(2), RAdd(spec.width_mm, spec.height_mm)), spec.length_mm),
         RInt(1000000))

\* Mutant: the waste factor is left out.
sheet_area_per_unit_NoWaste(spec, cfg) == base_sheet_area(spec)

sheet_area_per_unit(spec, cfg) ==
    RMul(base_sheet_area(spec), RAdd(RInt(1), cfg.waste_factor))

sheet_mass_per_unit(spec, cfg) ==
    RMul(RMul(sheet_area_per_unit(spec, cfg), RDiv(spec.thickness_mm, RInt(1000))),
         cfg.steel_density_kg_m3)

\* Mutant: the insulation area grows with the insulation thickness.
insulation_area_per_unit_ScaledByThickness(spec, cfg) ==
    IF spec.insulation_enabled /\ ~IsNone(spec.insulation_thickness_mm)
    THEN RMul(sheet_area_per_unit(spec, cfg),
              RDiv(Val(spec.insulation_thickness_mm), RInt(10)))
    ELSE RZero

insulation_area_per_unit(spec, cfg) ==
    IF spec.insulation_enabled THEN sheet_area_per_unit(spec, cfg) ELSE RZero

PerUnit(spec, cfg) ==
    [sheet_area_m2 |-> sheet_area_per_unit(spec, cfg),
     sheet_mass_kg |-> sheet_mass_per_unit(spec, cfg),
     insulation_area_m2 |-> insulation_area_per_unit(spec, cfg)]

\* Mutant: the mass of a line is not multiplied by the quantity.
LineTotals_MassPerUnit(per_unit, qty) ==
    [sheet_area_m2 |-> RMul(per_unit.sheet_area_m2, RInt(qty)),
     sheet_mass_kg |-> per_unit.sheet_mass_kg,
     insulation_area_m2 |-> RMul(per_unit.insulation_area_m2, RInt(qty))]

\* sheet_area_line, sheet_mass_line, insulation_area_line.
LineTotals(per_unit, qty) ==
    [sheet_area_m2 |-> RMul(per_unit.sheet_area_m2, RInt(qty)),
     sheet_mass_kg |-> RMul(per_unit.sheet_mass_kg, RInt(qty)),
     insulation_area_m2 |-> RMul(per_unit.insulation_area_m2, RInt(qty))]

\* key = (item.name, item.unit or "")
BomKey(item) ==
    <<item.name, IF IsNone(item.unit) \/ Val(item.unit) = "" THEN "" ELSE Val(item.unit)>>

\* The dictionaries priced_bom_agg and unpriced_bom_agg keep insertion
\* order: each is a sequence of entries with distinct keys.
IndexOf(agg, key) ==
    IF \E i \in 1..Len(agg) : agg[i].key = key
    THEN CHOOSE i \in 1..Len(agg) : agg[i].key = key
    ELSE 0

\* Mutant: every priced BOM entry gets an item of its own.
AddPriced_NoMerge(agg, key, total_qty, cost, item_total_cost) ==
    Append(agg, [key |-> key, total_quantity |-> total_qty,
                 cost_per_unit |-> Some(cost), total_cost |-> item_total_cost])

\* Mutant: a key met again keeps the total_cost of its latest entry only.
AddPriced_LastTotalWins(agg, key, total_qty, cost, item_total_cost) ==
    LET i == IndexOf(agg, key)
        new == [key |-> key,
                total_quantity |-> RAdd(IF i = 0 THEN RZero ELSE agg[i].total_quantity,
                                        total_qty),
                cost_per_unit |-> Some(cost),
                total_cost |-> item_total_cost]
    IN  IF i = 0 THEN Append(agg, new) ELSE [agg EXCEPT ![i] = new]

\* Mutant: a key met again is priced anew, all its quantity at the latest
\* cost.
AddPriced_RepricesAtLastCost(agg, key, total_qty, cost, item_total_cost) ==
    LET i == IndexOf(agg, key)
        quantity == RAdd(IF i = 0 THEN RZero ELSE agg[i].total_quantity, total_qty)
        new == [key |-> key, total_quantity |-> quantity, cost_per_unit |-> Some(cost),
                total_cost |-> RMul(cost, quantity)]
    IN  IF i = 0 THEN Append(agg, new) ELSE [agg EXCEPT ![i] = new]

\* Mutant: a key met again keeps the cost_per_unit of its first entry.
AddPriced_FirstCostWins(agg, key, total_qty, cost, item_total_cost) ==
    LET i == IndexOf(agg, key)
    IN  IF i = 0
        THEN Append(agg, [key |-> key, total_quantity |-> total_qty,
                          cost_per_unit |-> Some(cost), total_cost |-> item_total_cost])
        ELSE [agg EXCEPT ![i].total_quantity = RAdd(@, total_qty),
                         ![i].total_cost = RAdd(@, item_total_cost)]

\* entry = priced_bom_agg[key]; the three updates of the entry.
AddPriced(agg, key, total_qty, cost, item_total_cost) ==
    LET i == IndexOf(agg, key)
        old == IF i = 0
               THEN [key |-> key, total_quantity |-> RZero, cost_per_unit |-> None,
                     total_cost |-> RZero]
               ELSE agg[i]
        new == [key |-> key,
                total_quantity |-> RAdd(old.total_quantity, total_qty),
                cost_per_unit |-> Some(cost),
                total_cost |-> RAdd(old.total_cost, item_total_cost)]
    IN  IF i = 0 THEN Append(agg, new) ELSE [agg EXCEPT ![i] = new]

\* Mutant: every unpriced BOM entry gets an item of its own.
AddUnpriced_NoMerge(agg, key, total_qty) ==
    Append(agg, [key |-> key, total_quantity |-> total_qty])

\* unpriced_bom_agg[key]["total_quantity"] += total_qty
AddUnpriced(agg, key, total_qty) ==
    LET i == IndexOf(agg, key)
    IN  IF i = 0 THEN Append(agg, [key |-> key, total_quantity |-> total_qty])
        ELSE [agg EXCEPT ![i].total_quantity = RAdd(@, total_qty)]

\* Mutant: a missing cost is taken as the cost 0 ("cost_per_unit or 0").
AddBomItem_NoneIsZero(acc, item, qty) ==
    LET total_qty == RMul(item.quantity_per_unit, RInt(qty))
        cost == IF IsNone(item.cost_per_unit) THEN RZero ELSE Val(item.cost_per_unit)
        item_total_cost == RMul(cost, total_qty)
    IN  [acc EXCEPT
           !.agg_bom_cost = RAdd(@, item_total_cost),
           !.priced_bom_agg = AddPriced(@, BomKey(item), total_qty, cost, item_total_cost)]

\* Mutant: the cost of an entry is not multiplied by the line quantity.
AddBomItem_CostIgnoresQty(acc, item, qty) ==
    LET total_qty == RMul(item.quantity_per_unit, RInt(qty))
        key == BomKey(item)
    IN  IF ~IsNone(item.cost_per_unit)
        THEN LET item_total_cost == RMul(Val(item.cost_per_unit), item.quantity_per_unit)
             IN  [acc EXCEPT
                    !.agg_bom_cost = RAdd(@, item_total_cost),
                    !.priced_bom_agg =
                        AddPriced(@, key, total_qty, Val(item.cost_per_unit),
                                  item_total_cost)]
        ELSE [acc EXCEPT !.unpriced_bom_agg = AddUnpriced(@, key, total_qty)]

\* Mutant: an unpriced entry whose key is already priced is merged into the
\* priced item instead of the unpriced bucket.
AddBomItem_UnpricedJoinsPriced(acc, item, qty) ==
    LET total_qty == RMul(item.quantity_per_unit, RInt(qty))
        key == BomKey(item)
        i == IndexOf(acc.priced_bom_agg, key)
    IN  IF ~IsNone(item.cost_per_unit)
        THEN LET item_total_cost == RMul(Val(item.cost_per_unit), total_qty)
             IN  [acc EXCEPT
                    !.agg_bom_cost = RAdd(@, item_total_cost),
                    !.priced_bom_agg =
                        AddPriced(@, key, total_qty, Val(item.cost_per_unit),
                                  item_total_cost)]
        ELSE IF i /= 0
             THEN [acc EXCEPT !.priced_bom_agg[i].total_quantity = RAdd(@, total_qty)]
             ELSE [acc EXCEPT !.unpriced_bom_agg = AddUnpriced(@, key, total_qty)]

\* The body of "for item in product.bom_items".
AddBomItem(acc, item, qty) ==
    LET total_qty == RMul(item.quantity_per_unit, RInt(qty))
        key == BomKey(item)
    IN  IF ~IsNone(item.cost_per_unit)
        THEN LET item_total_cost == RMul(Val(item.cost_per_unit), total_qty)
             IN  [acc EXCEPT
                    !.agg_bom_cost = RAdd(@, item_total_cost),
                    !.priced_bom_agg =
                        AddPriced(@, key, total_qty, Val(item.cost_per_unit),
                                  item_total_cost)]
        ELSE [acc EXCEPT !.unpriced_bom_agg = AddUnpriced(@, key, total_qty)]

RECURSIVE AddBomItems(_, _, _, _)
AddBomItems(acc, items, i, qty) ==
    IF i > Len(items) THEN acc
    ELSE AddBomItems(AddBomItem(acc, items[i], qty), items, i + 1, qty)

\* Mutant: lines are numbered from 0.
LineResult_ZeroBased(line_number, line, per_unit, totals) ==
    [line_number |-> line_number - 1,
     line_id |-> line.id,
     product_id |-> line.product.id,
     product_name |-> line.product.name,
     quantity |-> line.quantity,
     per_unit |-> per_unit,
     totals |-> totals]

\* The record appended to per_line_results.
LineResult(line_number, line, per_unit, totals) ==
    [line_number |-> line_number,
     line_id |-> line.id,
     product_id |-> line.product.id,
     product_name |-> line.product.name,
     quantity |-> line.quantity,
     per_unit |-> per_unit,
     totals |-> totals]

\* One pass of the loop over the lines for a line that passes both checks.
ProcessLine(acc, line, line_number, cfg) ==
    LET spec == RectangularDuctSpec(line.product.attributes)
        qty == line.quantity
        per_unit == PerUnit(spec, cfg)
        totals == LineTotals(per_unit, qty)
        acc1 == [acc EXCEPT
                   !.total_quantity = @ + qty,
                   !.agg_sheet_area = RAdd(@, totals.sheet_area_m2),
                   !.agg_sheet_mass = RAdd(@, totals.sheet_mass_kg),
                   !.agg_insulation_area = RAdd(@, totals.insulation_area_m2)]
        acc2 == AddBomItems(acc1, line.product.bom_items, 1, qty)
    IN  [acc2 EXCEPT
           !.per_line_results = Append(@, LineResult(line_number, line, per_unit, totals))]

\* The accumulators before the loop.
InitialAcc ==
    [per_line_results |-> << >>,
     agg_sheet_area |-> RZero,
     agg_sheet_mass |-> RZero,
     agg_insulation_area |-> RZero,
     agg_bom_cost |-> RZero,
     total_quantity |-> 0,
     priced_bom_agg |-> << >>,
     unpriced_bom_agg |-> << >>,
     raised |-> None]

\* Mutant: a failing line is left out and the remaining lines are reported.
RECURSIVE ProcessLines_SkipFailing(_, _, _, _)
ProcessLines_SkipFailing(acc, lines, i, cfg) ==
    IF i > Len(lines) THEN acc
    ELSE IF ~IsNone(LineError(lines[i]))
         THEN ProcessLines_SkipFailing(acc, lines, i + 1, cfg)
         ELSE ProcessLines_SkipFailing(ProcessLine(acc, lines[i], i, cfg), lines, i + 1, cfg)

\* "for line_number, line in enumerate(lines, start=1)": a raise ends the loop.
RECURSIVE ProcessLines(_, _, _, _)
ProcessLines(acc, lines, i, cfg) ==
    IF i > Len(lines) THEN acc
    ELSE IF ~IsNone(LineError(lines[i]))
         THEN [acc EXCEPT !.raised = LineError(lines[i])]
         ELSE ProcessLines(ProcessLine(acc, lines[i], i, cfg), lines, i + 1, cfg)

\* Mutant: the share is left a fraction, not a percentage.
CostSharePct_Fraction(total_cost, agg_bom_cost) ==
    IF RLt(RZero, agg_bom_cost) THEN RDiv(total_cost, agg_bom_cost) ELSE RZero

\* cost_share_pct of a priced entry: 0 when the grand total is not > 0.
CostSharePct(total_cost, agg_bom_cost) ==
    IF RLt(RZero, agg_bom_cost)
    THEN RMul(RDiv(total_cost, agg_bom_cost), RInt(100))
    ELSE RZero

\* The priced_items list before sorting, in the dictionary's order.
RECURSIVE PricedItems(_, _, _)
PricedItems(agg, i, agg_bom_cost) ==
    IF i > Len(agg) THEN << >>
    ELSE << [name |-> agg[i].key[1],
             unit |-> agg[i].key[2],
             total_quantity |-> agg[i].total_quantity,
             cost_per_unit |-> agg[i].cost_per_unit,
             total_cost |-> agg[i].total_cost,
             cost_share_pct |-> CostSharePct(agg[i].total_cost, agg_bom_cost)] >>
         \o PricedItems(agg, i + 1, agg_bom_cost)

\* Mutant: x goes before the items of equal total_cost.
InsertByTotalCost_BeforeEqual(sorted, x) ==
    LET k == Cardinality({ i \in 1..Len(sorted) : RLt(x.total_cost, sorted[i].total_cost) })
    IN  SubSeq(sorted, 1, k) \o << x >> \o SubSeq(sorted, k + 1, Len(sorted))

\* list.sort(key=total_cost, reverse=True) is stable: x goes behind every
\* item whose total_cost is not smaller.
InsertByTotalCost(sorted, x) ==
    LET k == Cardinality({ i \in 1..Len(sorted) : RLe(x.total_cost, sorted[i].total_cost) })
    IN  SubSeq(sorted, 1, k) \o << x >> \o SubSeq(sorted, k + 1, Len(sorted))

RECURSIVE SortByTotalCostDesc(_)
SortByTotalCostDesc(items) ==
    IF items = << >> THEN << >>
    ELSE InsertByTotalCost(SortByTotalCostDesc(SubSeq(items, 1, Len(items) - 1)),
                           items[Len(items)])

RECURSIVE UnpricedItems(_, _)
UnpricedItems(agg, i) ==
    IF i > Len(agg) THEN << >>
    ELSE << [name |-> agg[i].key[1],
             unit |-> agg[i].key[2],
             total_quantity |-> agg[i].total_quantity] >>
         \o UnpricedItems(agg, i + 1)

\* Mutant: no item at all counts as nothing priced.
CostCompletenessPct_ZeroWhenEmpty(priced_item_count, total_item_count) ==
    IF total_item_count > 0
    THEN RMul(Rat(priced_item_count, total_item_count), RInt(100))
    ELSE RZero

\* cost_completeness_pct: 100 when there is no item at all.
CostCompletenessPct(priced_item_count, total_item_count) ==
    IF total_item_count > 0
    THEN RMul(Rat(priced_item_count, total_item_count), RInt(100))
    ELSE RInt(100)

\* header, summary, lines and bom_summary of the dictionary returned.
ReportSections(wo, lines, acc, now) ==
    LET priced_items ==
            SortByTotalCostDesc(PricedItems(acc.priced_bom_agg, 1, acc.agg_bom_cost))
        unpriced_items == UnpricedItems(acc.unpriced_bom_agg, 1)
        total_item_count == Len(priced_items) + Len(unpriced_items)
        priced_item_count == Len(priced_items)
        unpriced_item_count == Len(unpriced_items)
    IN  [header |->
            [project_name |-> wo.project_name,
             work_order_id |-> wo.id,
             generated_at |-> now,
             line_count |-> Len(lines),
             total_quantity |-> acc.total_quantity],
         summary |->
            [material |->
                [sheet_area_m2 |-> acc.agg_sheet_area,
                 sheet_mass_kg |-> acc.agg_sheet_mass,
                 insulation_area_m2 |-> acc.agg_insulation_area],
             cost |->
                [bom_total |-> acc.agg_bom_cost,
                 items_with_cost |-> priced_item_count,
                 items_missing_cost |-> unpriced_item_count,
                 cost_complete |-> (unpriced_item_count = 0)]],
         lines |-> acc.per_line_results,
         bom_summary |->
            [metrics |->
                [total_item_count |-> total_item_count,
                 priced_item_count |-> priced_item_count,
                 unpriced_item_count |-> unpriced_item_count,
                 total_cost |-> acc.agg_bom_cost,
                 cost_completeness_pct |->
                    CostCompletenessPct(priced_item_count, total_item_count)],
             priced_items |-> priced_items,
             unpriced_items |-> unpriced_items]]

\* Mutant: the report is the four sections alone.
BuildResult_FourSections(wo, lines, acc, now) ==
    ReportSections(wo, lines, acc, now)

\* The dictionary returned: the four sections and the key "notes".
BuildResult(wo, lines, acc, now) ==
    LET sections == ReportSections(wo, lines, acc, now)
    IN  [header |-> sections.header,
         summary |-> sections.summary,
         lines |-> sections.lines,
         bom_summary |-> sections.bom_summary,
         notes |-> "Hesaplama dikdortgen kanal icin yapilmistir."]

\* Mutant: the legacy line is appended to the work order's own lines.
WorkOrderAfter_KeepsLegacyLine(wo, lines) == [wo EXCEPT !.lines = lines]

\* The work order object once the call has ended: "lines" is a local name,
\* rebound to a new list for the legacy line; the object is assigned to
\* nowhere.
WorkOrderAfter(wo, lines) == wo

\* Mutant: a work order without lines is not refused; an empty report is
\* returned for it.
compute_work_order_NoLinesCheck(wo, cfg, now) ==
    LET lines == EffectiveLines(wo)
        acc == ProcessLines(InitialAcc, lines, 1, cfg)
    IN  IF ~IsNone(acc.raised)
        THEN [raised |-> Some(ValidationAppException(Val(acc.raised))), result |-> None,
              work_order |-> WorkOrderAfter(wo, lines)]
        ELSE [raised |-> None, result |-> Some(BuildResult(wo, lines, acc, now)),
              work_order |-> WorkOrderAfter(wo, lines)]

\* MRPService.compute_work_order: the exception raised, or the report, and
\* the work order as the call leaves it.
compute_work_order(wo, cfg, now) ==
    LET lines == EffectiveLines(wo)
    IN  IF Len(lines) = 0
        THEN [raised |-> Some(ValidationAppException(MsgNoLines)), result |-> None,
              work_order |-> WorkOrderAfter(wo, lines)]
        ELSE LET acc == ProcessLines(InitialAcc, lines, 1, cfg)
             IN  IF ~IsNone(acc.raised)
                 THEN [raised |-> Some(ValidationAppException(Val(acc.raised))),
                       result |-> None,
                       work_order |-> WorkOrderAfter(wo, lines)]
                 ELSE [raised |-> None,
                       result |-> Some(BuildResult(wo, lines, acc, now)),
                       work_order |-> WorkOrderAfter(wo, lines)]

\* ------------------------------------------------- product creation
MsgRequestInvalid == "Gonderilen veri dogrulanamadi"
MsgOnlyRectangular == "Su an yalnizca dikdortgen kanal urun tipi destekleniyor"

\* schemas.BOMItemBase: quantity_per_unit > 0, cost_per_unit None or >= 0.
BomItemIsValid(item) ==
    /\ RLt(RZero, item.quantity_per_unit)
    /\ (IsNone(item.cost_per_unit) \/ RLe(RZero, Val(item.cost_per_unit)))

\* The request body parses as schemas.ProductCreate.  (Whether a type other
\* than the rectangular duct is a member of ProductType is not decided by
\* the sources; it is taken as one, so that create_product sees it.)
PayloadIsValid(payload) ==
    /\ SpecIsValid(payload.spec)
    /\ \A i \in 1..Len(payload.bom_items) : BomItemIsValid(payload.bom_items[i])

\* product_in.spec.dict(): every field of the validated spec, defaults
\* included.
SpecDict(spec) ==
    Attributes(Some(spec.width_mm), Some(spec.height_mm), Some(spec.length_mm),
               Some(spec.thickness_mm), spec.insulation_enabled,
               spec.insulation_thickness_mm)

\* Mutant: create_product stores whatever type it is given.
create_product_AnyType(table, product_in) ==
    [raised |-> None,
     table |-> Append(table,
        [id |-> Some(Len(table) + 1), name |-> product_in.name,
         product_type |-> product_in.product_type,
         attributes |-> SpecDict(RectangularDuctSpec(product_in.spec)),
         bom_items |-> product_in.bom_items])]

\* products.service.create_product on a parsed ProductCreate: the exception
\* raised and the products table afterwards (ids are assigned in order).
create_product(table, product_in) ==
    IF product_in.product_type /= RECTANGULAR_DUCT
    THEN [raised |-> Some(ValidationAppException(MsgOnlyRectangular)), table |-> table]
    ELSE [raised |-> None,
          table |-> Append(table,
             [id |-> Some(Len(table) + 1), name |-> product_in.name,
              product_type |-> product_in.product_type,
              attributes |-> SpecDict(RectangularDuctSpec(product_in.spec)),
              bom_items |-> product_in.bom_items])]

\* Mutant: a body that does not validate is answered with 422 and stored.
create_product_endpoint_StoresRefused(table, payload) ==
    IF ~PayloadIsValid(payload)
    THEN [raised |-> Some(ValidationAppException(MsgRequestInvalid)),
          table |-> Append(table,
             [id |-> Some(Len(table) + 1), name |-> payload.name,
              product_type |-> payload.product_type,
              attributes |-> payload.spec, bom_items |-> payload.bom_items])]
    ELSE create_product(table, payload)

\* POST /products: the body is validated by FastAPI before the service is
\* called; a body that does not validate is answered with 422.
create_product_endpoint(table, payload) ==
    IF ~PayloadIsValid(payload)
    THEN [raised |-> Some(ValidationAppException(MsgRequestInvalid)), table |-> table]
    ELSE create_product(table, payload)

\* ------------------------------------------------------ work orders
\* core/errors.py NotFoundException: message, HTTP status 404, code.
NotFoundException(message) ==
    [message |-> message, status_code |-> 404, code |-> "not_found"]

MsgNeedLine == "En az bir satir eklemelisiniz"
MsgQuantityPositive == "Miktar 0'dan buyuk olmalidir"
MsgProductNotFound == "Urun bulunamadi"
MsgWorkOrderNotFound == "Is emri bulunamadi"

\* The database: the rows of products, work_orders and work_order_lines,
\* each table in the order of its primary key (ids are assigned in
\* sequence and no row is ever deleted).
Database(products_, work_orders_, lines_) ==
    [products |-> products_, work_orders |-> work_orders_, work_order_lines |-> lines_]

\* db.query(Product).filter(Product.id == id).first(): the row or None.
FindProduct(db, id) ==
    IF \E i \in 1..Len(db.products) : db.products[i].id = id
    THEN Some(db.products[CHOOSE i \in 1..Len(db.products) : db.products[i].id = id])
    ELSE None

\* schemas.WorkOrderLineCreate and a request body of schemas.WorkOrderCreate.
WorkOrderLineCreate(product_id, quantity) ==
    [product_id |-> product_id, quantity |-> quantity]
WorkOrderCreate(lines, product_id, quantity) ==
    [project_name |-> "Proje X", lines |-> lines,
     product_id |-> product_id, quantity |-> quantity]

\* The body parses as WorkOrderCreate: quantities are > 0.
WorkOrderCreateIsValid(body) ==
    /\ \A i \in 1..Len(body.lines) : body.lines[i].quantity > 0
    /\ (IsNone(body.quantity) \/ Val(body.quantity) > 0)

\* Mutant: the line of the legacy fields is added to the lines of the
\* request.
RequestLines_LegacyAdded(body) ==
    IF Truthy(body.product_id) /\ Truthy(body.quantity)
    THEN body.lines \o << WorkOrderLineCreate(Val(body.product_id), Val(body.quantity)) >>
    ELSE body.lines

\* create_work_order, lines 11-16: the lines of the request, or the one
\* line made of the legacy fields.
RequestLines(body) ==
    IF Len(body.lines) = 0 /\ Truthy(body.product_id) /\ Truthy(body.quantity)
    THEN << WorkOrderLineCreate(Val(body.product_id), Val(body.quantity)) >>
    ELSE body.lines

\* create_work_order, lines 21-28: the error of the first line that is
\* refused, or None.
RECURSIVE FirstLineError(_, _, _)
FirstLineError(db, lines, i) ==
    IF i > Len(lines) THEN None
    ELSE IF lines[i].quantity <= 0
         THEN Some(ValidationAppException(MsgQuantityPositive))
    ELSE IF IsNone(FindProduct(db, Some(lines[i].product_id)))
         THEN Some(NotFoundException(MsgProductNotFound))
    ELSE FirstLineError(db, lines, i + 1)

\* Mutant: the rows of a work order come newest first.
LineRowsOf_NewestFirst(db, work_order_id) ==
    LET rows == SelectSeq(db.work_order_lines, LAMBDA r : r.work_order_id = work_order_id)
    IN  [i \in 1..Len(rows) |-> rows[Len(rows) + 1 - i]]

\* The rows of work_order_lines of a work order: the relationship
\* WorkOrder.lines declares no order_by, the rows come in table order.
LineRowsOf(db, work_order_id) ==
    SelectSeq(db.work_order_lines, LAMBDA r : r.work_order_id = work_order_id)

\* The WorkOrder object of a row with its relationships loaded: lines
\* with their products, and the product of the legacy product_id.
LoadWorkOrder(db, row) ==
    LET rows == LineRowsOf(db, row.id)
    IN  [id |-> Some(row.id),
         project_name |-> row.project_name,
         lines |-> [i \in 1..Len(rows) |->
                      WorkOrderLine(Some(rows[i].id), Some(rows[i].product_id),
                                    rows[i].quantity,
                                    Val(FindProduct(db, Some(rows[i].product_id))))],
         product_id |-> row.product_id,
         quantity |-> row.quantity,
         product |-> IF IsNone(row.product_id) THEN None
                     ELSE FindProduct(db, row.product_id)]

\* _serialize_work_order; the product is shown by its id, name, type and
\* spec.
serialize_work_order(wo) ==
    [id |-> wo.id,
     project_name |-> wo.project_name,
     lines |-> [i \in 1..Len(wo.lines) |->
                  [id |-> wo.lines[i].id,
                   product_id |-> wo.lines[i].product_id,
                   quantity |-> wo.lines[i].quantity,
                   product |-> [id |-> wo.lines[i].product.id,
                                name |-> wo.lines[i].product.name,
                                product_type |-> wo.lines[i].product.product_type,
                                spec |-> wo.lines[i].product.attributes]]],
     product_id |-> wo.product_id,
     quantity |-> wo.quantity]

\* The row of work_order_lines number i of a new work order.
LineRow(db, work_order_id, lines, i) ==
    [id |-> Len(db.work_order_lines) + i, work_order_id |-> work_order_id,
     product_id |-> lines[i].product_id, quantity |-> lines[i].quantity]

\* db.add(work_order); db.commit(): the work order row, without the legacy
\* fields, and one row per line, in the order of the lines.
InsertWorkOrder(db, project_name, lines) ==
    LET id == Len(db.work_orders) + 1
    IN  [db EXCEPT
           !.work_orders = Append(@, [id |-> id, project_name |-> project_name,
                                      product_id |-> None, quantity |-> None]),
           !.work_order_lines = @ \o [i \in 1..Len(lines) |-> LineRow(db, id, lines, i)]]

\* Mutant: the lines before a refused line are committed.
create_work_order_KeepsValidLines(db, body) ==
    LET lines == RequestLines(body)
        error == FirstLineError(db, lines, 1)
        good == CHOOSE n \in 0..Len(lines) :
                   /\ IsNone(FirstLineError(db, SubSeq(lines, 1, n), 1))
                   /\ n < Len(lines) => ~IsNone(FirstLineError(db, SubSeq(lines, 1, n + 1), 1))
        after == InsertWorkOrder(db, body.project_name, SubSeq(lines, 1, good))
    IN  IF Len(lines) = 0
        THEN [raised |-> Some(ValidationAppException(MsgNeedLine)), db |-> db, body |-> None]
        ELSE IF ~IsNone(error)
        THEN [raised |-> error, db |-> after, body |-> None]
        ELSE [raised |-> None, db |-> after,
              body |-> Some(serialize_work_order(
                          LoadWorkOrder(after, after.work_orders[Len(after.work_orders)])))]

\* work_orders.service.create_work_order: the exception raised or the
\* body returned, and the database afterwards.
create_work_order(db, body) ==
    LET lines == RequestLines(body)
        error == FirstLineError(db, lines, 1)
        after == InsertWorkOrder(db, body.project_name, lines)
    IN  IF Len(lines) = 0
        THEN [raised |-> Some(ValidationAppException(MsgNeedLine)), db |-> db, body |-> None]
        ELSE IF ~IsNone(error)
        THEN [raised |-> error, db |-> db, body |-> None]
        ELSE [raised |-> None, db |-> after,
              body |-> Some(serialize_work_order(
                          LoadWorkOrder(after, after.work_orders[Len(after.work_orders)])))]

\* POST /work-orders: the body is validated before the service is called.
create_work_order_endpoint(db, body) ==
    IF ~WorkOrderCreateIsValid(body)
    THEN [raised |-> Some(ValidationAppException(MsgRequestInvalid)), db |-> db, body |-> None]
    ELSE create_work_order(db, body)

\* _get_work_order_model: the row of the id, or None.
FindWorkOrder(db, id) ==
    IF id \in 1..Len(db.work_orders) THEN Some(db.work_orders[id]) ELSE None

\* work_orders.service.get_work_order
get_work_order(db, id) ==
    IF IsNone(FindWorkOrder(db, id))
    THEN [raised |-> Some(NotFoundException(MsgWorkOrderNotFound)), body |-> None]
    ELSE [raised |-> None,
          body |-> Some(serialize_work_order(LoadWorkOrder(db, Val(FindWorkOrder(db, id)))))]

\* mrp.router.calculate_mrp
calculate_mrp(db, id, cfg, now) ==
    IF IsNone(FindWorkOrder(db, id))
    THEN [raised |-> Some(NotFoundException(MsgWorkOrderNotFound)), body |-> None]
    ELSE LET out == compute_work_order(LoadWorkOrder(db, Val(FindWorkOrder(db, id))), cfg, now)
         IN  [raised |-> out.raised, body |-> out.result]

\* Mutant: a line is made for every legacy work order, with or without
\* lines.
RECURSIVE MigrateFrom_NoLinesCheck(_, _)
MigrateFrom_NoLinesCheck(db, i) ==
    IF i > Len(db.work_orders) THEN db
    ELSE LET wo == db.work_orders[i]
         IN  IF IsNone(wo.product_id) \/ IsNone(wo.quantity)
             THEN MigrateFrom_NoLinesCheck(db, i + 1)
             ELSE MigrateFrom_NoLinesCheck(
                    [db EXCEPT !.work_order_lines =
                        Append(@, [id |-> Len(@) + 1, work_order_id |-> wo.id,
                                   product_id |-> Val(wo.product_id),
                                   quantity |-> Val(wo.quantity)])],
                    i + 1)

\* migrate_legacy_work_orders, the loop from row i on: a work order with
\* product_id and quantity and without lines gets one line.
RECURSIVE MigrateFrom(_, _)
MigrateFrom(db, i) ==
    IF i > Len(db.work_orders) THEN db
    ELSE LET wo == db.work_orders[i]
         IN  IF IsNone(wo.product_id) \/ IsNone(wo.quantity)
                \/ Len(LineRowsOf(db, wo.id)) > 0
             THEN MigrateFrom(db, i + 1)
             ELSE MigrateFrom(
                    [db EXCEPT !.work_order_lines =
                        Append(@, [id |-> Len(@) + 1, work_order_id |-> wo.id,
                                   product_id |-> Val(wo.product_id),
                                   quantity |-> Val(wo.quantity)])],
                    i + 1)

migrate_legacy_work_orders(db) == MigrateFrom(db, 1)

\* ------------------------------------------------------ the state machine
VARIABLES
    work_order,   \* the work order handed to the engine
    settings,     \* the Settings of the MRPService
    pc,           \* "ready", then "returned" or "raised"
    result,       \* the report returned, None before and after a raise
    raised,       \* the exception raised, None otherwise
    product_in,   \* the body of a POST /products request, None if there is none
    products,     \* the products table
    created,      \* "no" before POST /products, then "created" or "rejected"
    create_raised, \* the exception POST /products was answered with, or None
    work_orders,  \* the work_orders table
    work_order_lines, \* the work_order_lines table
    submitted,    \* per work order row, the request body it was created from
    request,      \* the last request served, None before the first
    response,     \* the answer to it
    lock_file,    \* the content of launcher.lock: a PID, or None if absent
    launcher      \* per launcher process, where it stands

dbVars == <<work_orders, work_order_lines, submitted, request, response>>
lockVars == <<lock_file, launcher>>
vars == <<work_order, settings, pc, result, raised,
          product_in, products, created, create_raised, dbVars, lockVars>>

\* No database rows, no request, no launcher.
NoDatabase ==
    /\ work_orders = << >>
    /\ work_order_lines = << >>
    /\ submitted = << >>
    /\ request = None
    /\ response = None
NoLauncher ==
    /\ lock_file = None
    /\ launcher = << >>

\* datetime.now().isoformat(): the wall clock is an input of the call.
Timestamps == {"2026-01-01T08:00:00"}

Init ==
    /\ \E n \in 0..MaxLines :
         \E f \in [1..n -> Catalog \X Quantities] :
           \E l \in (IF n = 0 THEN LegacyFields ELSE LegacyFieldsWithLines) :
             work_order = WorkOrder(Lines(f), l[1], l[2], l[3])
    /\ settings \in SettingsSet
    /\ pc = "ready"
    /\ result = None
    /\ raised = None
    /\ product_in = None
    /\ products = << >>
    /\ created = "no"
    /\ create_raised = None
    /\ NoDatabase
    /\ NoLauncher

\* One call of MRPService(settings).compute_work_order(work_order).
ComputeWorkOrder ==
    /\ pc = "ready"
    /\ \E now \in Timestamps :
         LET out == compute_work_order(work_order, settings, now)
         IN  /\ result' = out.result
             /\ raised' = out.raised
             /\ pc' = IF IsNone(out.raised) THEN "returned" ELSE "raised"
             /\ work_order' = out.work_order
    /\ UNCHANGED <<settings, product_in, products, created, create_raised, dbVars, lockVars>>

Next == ComputeWorkOrder

Spec == Init /\ [][Next]_vars

\* The geometry-centred specification: a product payload, and a work order
\* built around a transient product of the same type and geometry.
InitGeo ==
    /\ \E payload \in ProductPayloads :
         /\ product_in = Some(payload)
         /\ work_order \in WorkOrdersAround(TransientProduct(payload))
    /\ settings \in SettingsSet
    /\ pc = "ready"
    /\ result = None
    /\ raised = None
    /\ products = << >>
    /\ created = "no"
    /\ create_raised = None
    /\ NoDatabase
    /\ NoLauncher

\* One POST /products with the body product_in.
CreateProduct ==
    /\ created = "no"
    /\ ~IsNone(product_in)
    /\ LET out == create_product_endpoint(products, Val(product_in))
       IN  /\ products' = out.table
           /\ created' = IF IsNone(out.raised) THEN "created" ELSE "rejected"
           /\ create_raised' = out.raised
    /\ UNCHANGED <<work_order, settings, pc, result, raised, product_in, dbVars, lockVars>>

NextGeo == ComputeWorkOrder \/ CreateProduct

SpecGeo == InitGeo /\ [][NextGeo]_vars

\* ------------------------------------------- the application's database
MaxProducts == 2
MaxWorkOrders == 2

\* The settings of get_settings(): the defaults.
DefaultSettings == CHOOSE cfg \in SettingsSet : cfg.waste_factor = RZero

\* Bodies of POST /products: the product of the tests, the same with the
\* insulation thickness left out, one of width 0 and one of another type.
DbProductPayloads ==
    { [name |-> "Kanal", product_type |-> t, spec |-> a, bom_items |-> TestBom] :
        t \in {RECTANGULAR_DUCT},
        a \in { AttrInsulated,
                [f \in DOMAIN AttrInsulated \ {"insulation_thickness_mm"} |-> AttrInsulated[f]],
                AttrZeroWidth } }
    \cup { [name |-> "Boru", product_type |-> "ROUND_DUCT", spec |-> AttrInsulated,
            bom_items |-> TestBom] }

\* Bodies of POST /work-orders.  Product 9 never exists.
DbLineLists ==
    { << >>,
      << WorkOrderLineCreate(1, 5) >>,
      << WorkOrderLineCreate(9, 1) >>,
      << WorkOrderLineCreate(1, 5), WorkOrderLineCreate(2, 10) >>,
      << WorkOrderLineCreate(2, 10), WorkOrderLineCreate(1, 5) >>,
      << WorkOrderLineCreate(1, 5), WorkOrderLineCreate(9, 1) >> }
DbLegacyFields ==
    { <<None, None>>, <<Some(1), Some(5)>>, <<Some(0), Some(5)>>,
      <<Some(1), None>>, <<Some(9), Some(5)>>, <<Some(1), Some(0)>> }
WorkOrderBodies ==
    { WorkOrderCreate(ls, l[1], l[2]) : ls \in DbLineLists, l \in DbLegacyFields }

\* Rows a database can hold when the application starts: written by an
\* earlier version (legacy fields, no line), already migrated (legacy
\* fields and their line), created with a line, or with half of the
\* legacy fields.  Row i has the id i and, if it has a line, the line i.
SeedKinds == {"legacy", "migrated", "lines", "half"}
SeedRow(kind, id) ==
    [id |-> id, project_name |-> "Proje X",
     product_id |-> IF kind = "lines" THEN None ELSE Some(1),
     quantity |-> CASE kind = "legacy" -> Some(5)
                    [] kind = "migrated" -> Some(3)
                    [] OTHER -> None]
RECURSIVE SeedLines(_, _)
SeedLines(kinds, i) ==
    IF i > Len(kinds) THEN << >>
    ELSE LET rest == SeedLines(kinds, i + 1)
         IN  IF kinds[i] \in {"migrated", "lines"}
             THEN << [id |-> 0, work_order_id |-> i, product_id |-> 1, quantity |-> 3] >>
                  \o rest
             ELSE rest
SeedDatabase(kinds) ==
    LET lines == SeedLines(kinds, 1)
    IN  Database(<< CatalogProduct(1) >>,
                 [i \in 1..Len(kinds) |-> SeedRow(kinds[i], i)],
                 [i \in 1..Len(lines) |-> [lines[i] EXCEPT !.id = i]])
InitialDatabases ==
    { Database(<< >>, << >>, << >>) }
    \cup { SeedDatabase(kinds) :
             kinds \in UNION { [1..n -> SeedKinds] : n \in 0..MaxWorkOrders } }

\* The database of the state.
Db == Database(products, work_orders, work_order_lines)

InitDb ==
    /\ \E db \in InitialDatabases :
         /\ products = db.products
         /\ work_orders = db.work_orders
         /\ work_order_lines = db.work_order_lines
         /\ submitted = [i \in 1..Len(db.work_orders) |-> None]
    /\ request = None
    /\ response = None
    /\ work_order = WorkOrder(<< >>, None, None, None)
    /\ settings = DefaultSettings
    /\ pc = "off"
    /\ result = None
    /\ raised = None
    /\ product_in = None
    /\ created = "no"
    /\ create_raised = None
    /\ NoLauncher

engineVars == <<work_order, settings, pc, result, raised, product_in, created, create_raised>>

\* POST /products
PostProduct ==
    /\ Len(products) < MaxProducts
    /\ \E body \in DbProductPayloads :
         LET out == create_product_endpoint(products, body)
         IN  /\ products' = out.table
             /\ request' = Some([op |-> "post_product", body |-> body])
             /\ response' = Some([raised |-> out.raised,
                                   body |-> IF IsNone(out.raised)
                                            THEN Some(out.table[Len(out.table)]) ELSE None])
    /\ UNCHANGED <<work_orders, work_order_lines, submitted, engineVars, lockVars>>

\* POST /work-orders
PostWorkOrder ==
    /\ Len(work_orders) < MaxWorkOrders
    /\ \E body \in WorkOrderBodies :
         LET out == create_work_order_endpoint(Db, body)
         IN  /\ work_orders' = out.db.work_orders
             /\ work_order_lines' = out.db.work_order_lines
             /\ submitted' = IF IsNone(out.raised) THEN Append(submitted, Some(body))
                              ELSE submitted
             /\ request' = Some([op |-> "post_work_order", body |-> body])
             /\ response' = Some([raised |-> out.raised, body |-> out.body])
    /\ UNCHANGED <<products, engineVars, lockVars>>

\* GET /work-orders/{id}
GetWorkOrder ==
    /\ \E id \in 1..(MaxWorkOrders + 1) :
         /\ request' = Some([op |-> "get_work_order", id |-> id])
         /\ response' = Some(get_work_order(Db, id))
    /\ UNCHANGED <<products, work_orders, work_order_lines, submitted, engineVars, lockVars>>

\* GET /mrp/work-orders/{id}
CalculateMrp ==
    /\ \E id \in 1..(MaxWorkOrders + 1) :
         \E now \in Timestamps :
           /\ request' = Some([op |-> "calculate_mrp", id |-> id])
           /\ response' = Some(calculate_mrp(Db, id, settings, now))
    /\ UNCHANGED <<products, work_orders, work_order_lines, submitted, engineVars, lockVars>>

\* init_db at a start of the application: migrate_legacy_work_orders.
InitDbMigrate ==
    /\ LET after == migrate_legacy_work_orders(Db)
       IN  /\ work_orders' = after.work_orders
           /\ work_order_lines' = after.work_order_lines
    /\ request' = Some([op |-> "init_db"])
    /\ response' = None
    /\ UNCHANGED <<products, submitted, engineVars, lockVars>>

NextDb == PostProduct \/ PostWorkOrder \/ GetWorkOrder \/ CalculateMrp \/ InitDbMigrate

SpecDb == InitDb /\ [][NextDb]_vars

\* -------------------------------------------------- the launcher lock
NumLaunchers == 2
\* The launcher processes; a launcher's PID is its number.
Launchers == 1..NumLaunchers
\* The PID left in the lock file by a launcher of an earlier run that was
\* killed: no process has it.
StalePid == NumLaunchers + 1

\* Where a launcher is in main, acquire_lock and release_lock.
LivePcs ==
    {"exists", "read_text", "pid_alive", "unlink", "write_text", "running",
     "release_exists", "release_unlink", "atexit_exists", "atexit_unlink"}
\* Mutant: every positive PID counts as alive.
pid_alive_AnyPid(pid) == pid > 0

\* _pid_alive: the PID is that of a running process.
pid_alive(pid) == pid \in Launchers /\ launcher[pid].pc \in LivePcs

At(p, where) == launcher[p].pc = where
Goto(p, where) == launcher' = [launcher EXCEPT ![p].pc = where]
otherVars ==
    <<work_order, settings, pc, result, raised, product_in, products, created,
      create_raised, dbVars>>

InitLock ==
    /\ lock_file \in {None, Some(StalePid)}
    /\ launcher = [p \in Launchers |-> [pc |-> "idle", pid |-> 0]]
    /\ work_order = WorkOrder(<< >>, None, None, None)
    /\ settings = DefaultSettings
    /\ pc = "off"
    /\ result = None
    /\ raised = None
    /\ product_in = None
    /\ products = << >>
    /\ created = "no"
    /\ create_raised = None
    /\ NoDatabase

\* main: the launcher is started and calls acquire_lock.
Start(p) ==
    /\ At(p, "idle")
    /\ Goto(p, "exists")
    /\ UNCHANGED <<lock_file, otherVars>>

\* acquire_lock: if path.exists()
PathExists(p) ==
    /\ At(p, "exists")
    /\ Goto(p, IF IsNone(lock_file) THEN "write_text" ELSE "read_text")
    /\ UNCHANGED <<lock_file, otherVars>>

\* acquire_lock: pid = int(path.read_text()...), 0 if the read fails.
ReadText(p) ==
    /\ At(p, "read_text")
    /\ launcher' = [launcher EXCEPT
                       ![p].pc = "pid_alive",
                       ![p].pid = IF IsNone(lock_file) THEN 0 ELSE Val(lock_file)]
    /\ UNCHANGED <<lock_file, otherVars>>

\* acquire_lock: if _pid_alive(pid): return None; main returns.
PidAlive(p) ==
    /\ At(p, "pid_alive")
    /\ Goto(p, IF pid_alive(launcher[p].pid) THEN "refused" ELSE "unlink")
    /\ UNCHANGED <<lock_file, otherVars>>

\* acquire_lock: path.unlink(), a failure is ignored.
Unlink(p) ==
    /\ At(p, "unlink")
    /\ lock_file' = None
    /\ Goto(p, "write_text")
    /\ UNCHANGED otherVars

\* acquire_lock: path.write_text(str(os.getpid())), atexit.register and
\* return path; main goes on to start and watch the application.
WriteText(p) ==
    /\ At(p, "write_text")
    /\ lock_file' = Some(p)
    /\ Goto(p, "running")
    /\ UNCHANGED otherVars

\* main: the application ends; finally: release_lock(lock_path).
Finish(p) ==
    /\ At(p, "running")
    /\ Goto(p, "release_exists")
    /\ UNCHANGED <<lock_file, otherVars>>

\* release_lock: if path.exists(), in main's finally and again at exit.
ReleaseExists(p) ==
    /\ \/ At(p, "release_exists")
          /\ Goto(p, IF IsNone(lock_file) THEN "atexit_exists" ELSE "release_unlink")
       \/ At(p, "atexit_exists")
          /\ Goto(p, IF IsNone(lock_file) THEN "exited" ELSE "atexit_unlink")
    /\ UNCHANGED <<lock_file, otherVars>>

\* release_lock: path.unlink()
ReleaseUnlink(p) ==
    /\ \/ At(p, "release_unlink") /\ Goto(p, "atexit_exists")
       \/ At(p, "atexit_unlink") /\ Goto(p, "exited")
    /\ lock_file' = None
    /\ UNCHANGED otherVars

\* The launcher is killed: neither finally nor atexit runs.
Kill(p) ==
    /\ launcher[p].pc \in LivePcs
    /\ Goto(p, "killed")
    /\ UNCHANGED <<lock_file, otherVars>>

NextLock ==
    \E p \in Launchers :
       \/ Start(p)
       \/ PathExists(p)
       \/ ReadText(p)
       \/ PidAlive(p)
       \/ Unlink(p)
       \/ WriteText(p)
       \/ Finish(p)
       \/ ReleaseExists(p)
       \/ ReleaseUnlink(p)
       \/ Kill(p)

SpecLock == InitLock /\ [][NextLock]_vars

\* =================================================== properties checked
Returned == pc = "returned"
Raised == pc = "raised"
Report == Val(result)
InputLines == EffectiveLines(work_order)

\* The BOM entries of the work order, each with the quantity of its line,
\* in processing order.
RECURSIVE Entries(_, _)
Entries(lines, i) ==
    IF i > Len(lines) THEN << >>
    ELSE [j \in 1..Len(lines[i].product.bom_items) |->
             [item |-> lines[i].product.bom_items[j],
              qty |-> lines[i].quantity,
              line |-> i]]
         \o Entries(lines, i + 1)

InputEntries == Entries(InputLines, 1)
IsPriced(e) == ~IsNone(e.item.cost_per_unit)
KeyOf(e) == <<e.item.name, IF e.item.unit \in {None, Some("")} THEN "" ELSE Val(e.item.unit)>>
InputKeys == { KeyOf(InputEntries[i]) : i \in 1..Len(InputEntries) }
\* The positions of the priced, and of the unpriced, entries of a key.
PricedAt(key) ==
    { i \in 1..Len(InputEntries) : KeyOf(InputEntries[i]) = key /\ IsPriced(InputEntries[i]) }
UnpricedAt(key) ==
    { i \in 1..Len(InputEntries) : KeyOf(InputEntries[i]) = key /\ ~IsPriced(InputEntries[i]) }

\* Sum of f[i] over the positions I, f a sequence of rationals.
RECURSIVE RSum(_, _)
RSum(f, I) ==
    IF I = {} THEN RZero
    ELSE LET i == CHOOSE x \in I : TRUE IN RAdd(f[i], RSum(f, I \ {i}))

EntryQuantity == [i \in 1..Len(InputEntries) |->
    RMul(InputEntries[i].item.quantity_per_unit, RInt(InputEntries[i].qty))]
EntryCost == [i \in 1..Len(InputEntries) |->
    IF IsPriced(InputEntries[i])
    THEN RMul(Val(InputEntries[i].item.cost_per_unit), EntryQuantity[i])
    ELSE RZero]

PricedItemsOf(key) ==
    { i \in 1..Len(Report.bom_summary.priced_items) :
        <<Report.bom_summary.priced_items[i].name,
          Report.bom_summary.priced_items[i].unit>> = key }
UnpricedItemsOf(key) ==
    { i \in 1..Len(Report.bom_summary.unpriced_items) :
        <<Report.bom_summary.unpriced_items[i].name,
          Report.bom_summary.unpriced_items[i].unit>> = key }

\* ---------------------------------------------------------------- C1
LineTotalsOf(field) == [i \in 1..Len(Report.lines) |-> Report.lines[i].totals[field]]

\* C1: in every report, each material total of the summary (sheet area,
\* sheet mass, insulation area) is the sum of that total over the entries of
\* `lines`, and each line total is the line's per-unit value times the
\* line's quantity.
C1_SummaryIsSumOfLines ==
    Returned =>
        /\ \A field \in {"sheet_area_m2", "sheet_mass_kg", "insulation_area_m2"} :
             /\ Report.summary.material[field]
                  = RSum(LineTotalsOf(field), 1..Len(Report.lines))
             /\ \A i \in 1..Len(Report.lines) :
                  Report.lines[i].totals[field]
                    = RMul(Report.lines[i].per_unit[field], RInt(Report.lines[i].quantity))

\* Two lines of different quantity and geometry, one of them insulated.
C1_Witness ==
    /\ Returned
    /\ Len(Report.lines) = 2
    /\ Report.lines[1].quantity = 3
    /\ Report.lines[2].quantity = 1
    /\ Report.lines[1].totals.insulation_area_m2 /= RZero
    /\ Report.lines[2].totals.sheet_mass_kg /= Report.lines[1].totals.sheet_mass_kg
    /\ Report.summary.material.sheet_area_m2 /= Report.lines[1].totals.sheet_area_m2

\* ---------------------------------------------------------------- C2
\* C2: in every report, a key (name, unit or "") all of whose BOM entries,
\* on whatever lines, carry a cost has exactly one priced item, and the
\* item's total_quantity is the sum of quantity_per_unit * line quantity
\* over those entries.
C2_PricedKeyMergedOnce ==
    Returned =>
        \A key \in InputKeys :
            UnpricedAt(key) = {} =>
                /\ Cardinality(PricedItemsOf(key)) = 1
                /\ \A i \in PricedItemsOf(key) :
                     Report.bom_summary.priced_items[i].total_quantity
                       = RSum(EntryQuantity, PricedAt(key))

\* A key priced on both of two lines, merged into one item.
C2_Witness ==
    /\ Returned
    /\ \E key \in InputKeys :
         /\ UnpricedAt(key) = {}
         /\ \E i, j \in PricedAt(key) : InputEntries[i].line /= InputEntries[j].line
         /\ Cardinality(PricedItemsOf(key)) = 1

\* ---------------------------------------------------------------- C3
\* C3: in every report, a key with a cost on one entry and no cost on
\* another has exactly one priced item, carrying the quantity of the priced
\* entries only, and exactly one unpriced item, carrying the quantity of
\* the unpriced entries only.
C3_PricedAndUnpricedKeptApart ==
    Returned =>
        \A key \in InputKeys :
            (PricedAt(key) /= {} /\ UnpricedAt(key) /= {}) =>
                /\ Cardinality(PricedItemsOf(key)) = 1
                /\ Cardinality(UnpricedItemsOf(key)) = 1
                /\ \A i \in PricedItemsOf(key) :
                     Report.bom_summary.priced_items[i].total_quantity
                       = RSum(EntryQuantity, PricedAt(key))
                /\ \A i \in UnpricedItemsOf(key) :
                     Report.bom_summary.unpriced_items[i].total_quantity
                       = RSum(EntryQuantity, UnpricedAt(key))

\* A key priced on one line and unpriced on another line.
C3_Witness ==
    /\ Returned
    /\ \E key \in InputKeys :
         \E i \in PricedAt(key), j \in UnpricedAt(key) :
            /\ InputEntries[i].line /= InputEntries[j].line
            /\ PricedItemsOf(key) /= {}
            /\ UnpricedItemsOf(key) /= {}

\* ---------------------------------------------------------------- C4
PricedShares ==
    [i \in 1..Len(Report.bom_summary.priced_items) |->
        Report.bom_summary.priced_items[i].cost_share_pct]

\* C4: in every report, if bom_total > 0 the cost_share_pct of each priced
\* item is total_cost / bom_total * 100 and the shares sum to 100; if
\* bom_total = 0 every share is 0.
C4_CostSharesSumTo100 ==
    Returned =>
        LET items == Report.bom_summary.priced_items
            bom_total == Report.summary.cost.bom_total
        IN  /\ RLt(RZero, bom_total) =>
                /\ RSum(PricedShares, 1..Len(items)) = RInt(100)
                /\ \A i \in 1..Len(items) :
                     items[i].cost_share_pct
                       = RMul(RDiv(items[i].total_cost, bom_total), RInt(100))
            /\ bom_total = RZero =>
                \A i \in 1..Len(items) : items[i].cost_share_pct = RZero

\* Two priced items sharing a positive total.
C4_Witness ==
    /\ Returned
    /\ RLt(RZero, Report.summary.cost.bom_total)
    /\ Len(Report.bom_summary.priced_items) = 2
    /\ Report.bom_summary.priced_items[1].cost_share_pct
         /= Report.bom_summary.priced_items[2].cost_share_pct

\* Priced items whose costs are all 0: the guarded division.
C4_WitnessZeroTotal ==
    /\ Returned
    /\ Report.summary.cost.bom_total = RZero
    /\ Len(Report.bom_summary.priced_items) > 0

\* ---------------------------------------------------------------- C5
\* C5: in every report, bom_total is the sum of cost_per_unit *
\* quantity_per_unit * line quantity over exactly the BOM entries that
\* carry a cost; an entry without a cost adds nothing, also when its key is
\* priced elsewhere.
C5_BomTotalOverPricedEntries ==
    Returned =>
        Report.summary.cost.bom_total = RSum(EntryCost, 1..Len(InputEntries))

\* A positive total with an unpriced entry of a key that is priced on
\* another line.
C5_Witness ==
    /\ Returned
    /\ RLt(RZero, Report.summary.cost.bom_total)
    /\ \E key \in InputKeys :
         \E i \in PricedAt(key), j \in UnpricedAt(key) :
            InputEntries[i].line /= InputEntries[j].line

\* ---------------------------------------------------------------- C6
\* The distinct keys with a priced entry, and those with an unpriced entry.
PricedKeys == { key \in InputKeys : PricedAt(key) /= {} }
UnpricedKeys == { key \in InputKeys : UnpricedAt(key) /= {} }
UnpricedEntries == { i \in 1..Len(InputEntries) : ~IsPriced(InputEntries[i]) }

\* C6: in every report, cost_complete is true exactly when no key has an
\* unpriced entry, and items_missing_cost is the number of distinct keys
\* with an unpriced entry (not the number of unpriced entries).
C6_MissingCostCountsKeys ==
    Returned =>
        /\ Report.summary.cost.cost_complete <=> (Cardinality(UnpricedKeys) = 0)
        /\ Report.summary.cost.items_missing_cost = Cardinality(UnpricedKeys)

\* More unpriced entries than unpriced keys.
C6_Witness ==
    /\ Returned
    /\ Cardinality(UnpricedKeys) = 1
    /\ Cardinality(UnpricedEntries) = 2
    /\ ~Report.summary.cost.cost_complete

\* ---------------------------------------------------------------- C7
\* C7: in every report, cost_completeness_pct is priced_item_count /
\* (priced_item_count + unpriced_item_count) * 100 whenever the work order
\* has BOM items; it is 100 when the work order has no BOM entry, and 0 when
\* it has BOM entries and none of them carries a cost.
C7_CostCompletenessFormula ==
    Returned =>
        LET m == Report.bom_summary.metrics
        IN  /\ m.priced_item_count + m.unpriced_item_count > 0 =>
                m.cost_completeness_pct
                  = RMul(Rat(m.priced_item_count,
                             m.priced_item_count + m.unpriced_item_count), RInt(100))
            /\ Len(InputEntries) = 0 => m.cost_completeness_pct = RInt(100)
            /\ (Len(InputEntries) > 0
                  /\ \A i \in 1..Len(InputEntries) : ~IsPriced(InputEntries[i])) =>
                m.cost_completeness_pct = RZero

\* A report on a work order without any BOM entry.
C7_Witness ==
    /\ Returned
    /\ Len(InputLines) = 2
    /\ Len(InputEntries) = 0
    /\ Report.bom_summary.metrics.cost_completeness_pct = RInt(100)

\* A report none of whose BOM entries carries a cost.
C7_WitnessAllUnpriced ==
    /\ Returned
    /\ Len(InputEntries) > 0
    /\ PricedKeys = {}
    /\ Report.bom_summary.metrics.cost_completeness_pct = RZero

\* ---------------------------------------------------------------- C8
\* C8 as claimed: cost_completeness_pct is the share, in percent, of the
\* distinct BOM keys of the work order that have a known unit cost.
C8_Original_ShareOfDistinctKeys ==
    (Returned /\ InputKeys /= {}) =>
        Report.bom_summary.metrics.cost_completeness_pct
          = RMul(Rat(Cardinality(PricedKeys), Cardinality(InputKeys)), RInt(100))

\* C8 amended: cost_completeness_pct is the number of keys with a priced
\* entry over that number plus the number of keys with an unpriced entry,
\* in percent; a key that is priced on one entry and unpriced on another
\* counts on both sides.  It is the share of the distinct keys with a known
\* cost whenever no key is both priced and unpriced.
C8_ShareOfPricedAndUnpricedKeys ==
    (Returned /\ InputKeys /= {}) =>
        /\ Report.bom_summary.metrics.cost_completeness_pct
             = RMul(Rat(Cardinality(PricedKeys),
                        Cardinality(PricedKeys) + Cardinality(UnpricedKeys)), RInt(100))
        /\ PricedKeys \cap UnpricedKeys = {} =>
             Report.bom_summary.metrics.cost_completeness_pct
               = RMul(Rat(Cardinality(PricedKeys), Cardinality(InputKeys)), RInt(100))

\* The only key is priced on one line and unpriced on the other: 50, not 100.
C8_Witness ==
    /\ Returned
    /\ Cardinality(InputKeys) = 1
    /\ PricedKeys = InputKeys
    /\ UnpricedKeys = InputKeys
    /\ Report.bom_summary.metrics.cost_completeness_pct = RInt(50)

\* ---------------------------------------------------------------- C9
UnsupportedType(line) == line.product.product_type /= RECTANGULAR_DUCT
InvalidGeometry(line) == ~SpecIsValid(line.product.attributes)
FailingLines ==
    { i \in 1..Len(InputLines) : UnsupportedType(InputLines[i]) \/ InvalidGeometry(InputLines[i]) }
FirstFailing == CHOOSE i \in FailingLines : \A j \in FailingLines : i <= j

\* C9: once the call has ended on a work order one of whose lines has an
\* unsupported product type or an invalid geometry, a validation error was
\* raised and no report returned, whatever the other lines; the error is
\* that of the first failing line, the type error if that line's type is
\* unsupported and the geometry error otherwise.
C9_NoPartialReport ==
    (pc /= "ready" /\ FailingLines /= {}) =>
        /\ Raised
        /\ result = None
        /\ raised = Some(ValidationAppException(
                IF UnsupportedType(InputLines[FirstFailing])
                THEN MsgUnsupportedType ELSE MsgInvalidGeometry))

\* A valid line followed by a line failing both checks: the type error.
C9_Witness ==
    /\ Raised
    /\ Len(InputLines) = 2
    /\ FailingLines = {2}
    /\ UnsupportedType(InputLines[2]) /\ InvalidGeometry(InputLines[2])
    /\ Val(raised).message = MsgUnsupportedType

\* A line of invalid geometry followed by a valid line and the error of
\* the first of two failing lines.
C9_WitnessFirstOfTwo ==
    /\ Raised
    /\ FailingLines = {1, 2}
    /\ ~UnsupportedType(InputLines[1]) /\ UnsupportedType(InputLines[2])
    /\ Val(raised).message = MsgInvalidGeometry

\* --------------------------------------------------------------- C10
\* The legacy fields do not name a product and a quantity: one of
\* product_id, quantity and product is missing or zero.
NoLegacyProduct ==
    \/ work_order.product_id \in {None, Some(0)}
    \/ work_order.quantity \in {None, Some(0)}
    \/ work_order.product = None

\* C10: once the call has ended on a work order with no line and no legacy
\* single product, the validation error "no work order line found" was
\* raised and no report returned.
C10_NoLinesRaises ==
    (pc /= "ready" /\ Len(work_order.lines) = 0 /\ NoLegacyProduct) =>
        /\ Raised
        /\ result = None
        /\ raised = Some(ValidationAppException(MsgNoLines))

\* The call has raised on a work order without lines and legacy fields.
C10_Witness ==
    /\ Raised
    /\ Len(work_order.lines) = 0
    /\ work_order.product_id = None /\ work_order.quantity = None /\ work_order.product = None
    /\ Val(raised).message = MsgNoLines

\* --------------------------------------------------------------- C14
FourSections == {"header", "summary", "lines", "bom_summary"}

\* C14 as stated: every report returned has the top-level keys header,
\* summary, lines and bom_summary and no other.
C14_Original_ExactlyFourKeys ==
    Returned => DOMAIN Report = FourSections

\* C14: every report returned has the four sections header, summary, lines
\* and bom_summary and one more top-level key, notes, a fixed text; it has
\* no other top-level key.
C14_FourSectionsAndNotes ==
    Returned =>
        /\ DOMAIN Report = FourSections \cup {"notes"}
        /\ DOMAIN Report.summary = {"material", "cost"}
        /\ DOMAIN Report.bom_summary = {"metrics", "priced_items", "unpriced_items"}
        /\ Report.notes = "Hesaplama dikdortgen kanal icin yapilmistir."

\* A report of two lines has been returned, and it has the key notes.
C14_Witness ==
    /\ Returned
    /\ Len(Report.lines) = 2
    /\ "notes" \in DOMAIN Report

\* --------------------------------------------------------------- C15
RECURSIVE SumQuantities(_, _)
SumQuantities(lines, i) ==
    IF i > Len(lines) THEN 0 ELSE lines[i].quantity + SumQuantities(lines, i + 1)

\* C15: the lines array of a report has one entry per line of the work
\* order (a legacy single product counting as one line), in the order of
\* the lines; entry i has line_number i and the id, the quantity and the
\* product id and name of line i; header.line_count is the number of
\* lines and header.total_quantity the sum of their quantities.
C15_LinesFollowInput ==
    Returned =>
        /\ Len(Report.lines) = Len(InputLines)
        /\ \A i \in 1..Len(InputLines) :
              /\ Report.lines[i].line_number = i
              /\ Report.lines[i].line_id = InputLines[i].id
              /\ Report.lines[i].quantity = InputLines[i].quantity
              /\ Report.lines[i].product_id = InputLines[i].product.id
              /\ Report.lines[i].product_name = InputLines[i].product.name
        /\ Report.header.line_count = Len(InputLines)
        /\ Report.header.total_quantity = SumQuantities(InputLines, 1)

\* A report of two lines of different products and quantities.
C15_Witness ==
    /\ Returned
    /\ Len(work_order.lines) = 2
    /\ work_order.lines[1].product.id = Some(3) /\ work_order.lines[1].quantity = 3
    /\ work_order.lines[2].product.id = Some(1) /\ work_order.lines[2].quantity = 1
    /\ Report.lines[2].line_number = 2
    /\ Report.header.total_quantity = 4

\* A report of the one line made from the legacy fields.
C15_WitnessLegacy ==
    /\ Returned
    /\ Len(work_order.lines) = 0
    /\ Len(Report.lines) = 1
    /\ Report.lines[1].line_id = None
    /\ Report.header.total_quantity = 3

\* --------------------------------------------------------------- C16
\* The orders in which n lines can be arranged.
LineOrders(n) == { f \in [1..n -> 1..n] : \A i, j \in 1..n : f[i] = f[j] => i = j }

\* The report for the lines of the work order arranged by f.
ReportOf(f) ==
    Val(compute_work_order([work_order EXCEPT !.lines = [i \in DOMAIN f |-> @[f[i]]]],
                           settings, Report.header.generated_at).result)

\* A priced item without its cost_per_unit, an unpriced item, as sets.
PricedTotalsOf(r) ==
    { [name |-> r.bom_summary.priced_items[i].name,
       unit |-> r.bom_summary.priced_items[i].unit,
       total_quantity |-> r.bom_summary.priced_items[i].total_quantity,
       total_cost |-> r.bom_summary.priced_items[i].total_cost,
       cost_share_pct |-> r.bom_summary.priced_items[i].cost_share_pct] :
      i \in 1..Len(r.bom_summary.priced_items) }
UnpricedSetOf(r) ==
    { r.bom_summary.unpriced_items[i] : i \in 1..Len(r.bom_summary.unpriced_items) }
LineSetOf(r) ==
    { [line_id |-> r.lines[i].line_id, product_id |-> r.lines[i].product_id,
       product_name |-> r.lines[i].product_name, quantity |-> r.lines[i].quantity,
       per_unit |-> r.lines[i].per_unit, totals |-> r.lines[i].totals] :
      i \in 1..Len(r.lines) }
NonIncreasing(items) ==
    \A i, j \in 1..Len(items) : i < j => RLe(items[j].total_cost, items[i].total_cost)

PricedItem(i) == Report.bom_summary.priced_items[i]
ItemKey(i) == <<PricedItem(i).name, PricedItem(i).unit>>
\* The position of the first priced entry of a key, in processing order.
FirstPricedAt(key) == CHOOSE i \in PricedAt(key) : \A j \in PricedAt(key) : i <= j
LastPricedAt(key) == CHOOSE i \in PricedAt(key) : \A j \in PricedAt(key) : j <= i

C19_WitnessReordered ==
    /\ Returned
    /\ Len(Report.bom_summary.priced_items) = 2
    /\ RLt(PricedItem(2).total_cost, PricedItem(1).total_cost)
    /\ FirstPricedAt(ItemKey(2)) < FirstPricedAt(ItemKey(1))

\* Two items of equal total_cost; the key of the second was met before the
\* key of the first, but unpriced.
C19_WitnessUnpricedFirst ==
    /\ Returned
    /\ Len(Report.bom_summary.priced_items) = 2
    /\ PricedItem(1).total_cost = PricedItem(2).total_cost
    /\ \E u \in UnpricedAt(ItemKey(2)) : u < FirstPricedAt(ItemKey(1))

\* --------------------------------------------------------------- C20
\* C20: the priced item of a key has the cost_per_unit of the last priced
\* entry of the key in processing order, and for total_cost the sum over
\* the priced entries of the key of the entry's own cost_per_unit times
\* its quantity_per_unit times the quantity of its line.
C20_LastCostOwnTotals ==
    Returned =>
        \A i \in 1..Len(Report.bom_summary.priced_items) :
            /\ PricedAt(ItemKey(i)) /= {}
            /\ PricedItem(i).cost_per_unit =
                   InputEntries[LastPricedAt(ItemKey(i))].item.cost_per_unit
            /\ PricedItem(i).total_cost = RSum(EntryCost, PricedAt(ItemKey(i)))

\* A key priced at 100 on the first line and at 50 on the second: the
\* item shows 50, and a total that is not 50 times the total quantity.
C20_Witness ==
    /\ Returned
    /\ \E i \in 1..Len(Report.bom_summary.priced_items) :
          /\ Cardinality(PricedAt(ItemKey(i))) = 2
          /\ InputEntries[FirstPricedAt(ItemKey(i))].item.cost_per_unit = Some(RInt(100))
          /\ PricedItem(i).cost_per_unit = Some(RInt(50))
          /\ PricedItem(i).total_cost /=
                 RMul(RInt(50), PricedItem(i).total_quantity)

\* --------------------------------------------------------------- C11
\* width_mm, height_mm or length_mm is <= 0, or thickness_mm is not in
\* (0, 20].
BadDimensions(attrs) ==
    \/ \E f \in {"width_mm", "height_mm", "length_mm"} : RLe(Val(attrs[f]), RZero)
    \/ RLe(Val(attrs.thickness_mm), RZero)
    \/ RLt(RInt(20), Val(attrs.thickness_mm))

\* The work order has a product of such dimensions: on one of its lines
\* or, when it has no lines, as its bare product.
HasBadProduct ==
    \/ \E i \in 1..Len(work_order.lines) :
          BadDimensions(work_order.lines[i].product.attributes)
    \/ /\ Len(work_order.lines) = 0
       /\ ~IsNone(work_order.product)
       /\ BadDimensions(Val(work_order.product).attributes)

\* C11 as stated: once the call has ended on a work order having a
\* product of such dimensions, on a line or as its bare product, the error
\* "invalid product dimensions" was raised and no report returned.
C11_Original_AlwaysGeometryError ==
    (pc /= "ready" /\ HasBadProduct) =>
        /\ Raised
        /\ result = None
        /\ raised = Some(ValidationAppException(MsgInvalidGeometry))

\* C11: once the call has ended on a work order having a product of such
\* dimensions, a validation error was raised and no report returned.  The
\* error is "no work order line found" when the engine finds no line (a
\* bare product without product_id), else that of the first failing line:
\* "no calculation defined" when its type is unsupported and "invalid
\* product dimensions" otherwise.
C11_BadDimensionsRaise ==
    (pc /= "ready" /\ HasBadProduct) =>
        /\ Raised
        /\ result = None
        /\ raised = Some(ValidationAppException(
              IF Len(InputLines) = 0 THEN MsgNoLines
              ELSE IF UnsupportedType(InputLines[FirstFailing]) THEN MsgUnsupportedType
              ELSE MsgInvalidGeometry))

\* A bare rectangular product of width 0 with product_id and quantity:
\* the geometry error.
C11_Witness ==
    /\ Raised
    /\ Len(work_order.lines) = 0
    /\ work_order.product_id = Some(1)
    /\ Val(work_order.product).product_type = RECTANGULAR_DUCT
    /\ Val(work_order.product).attributes.width_mm = Some(RZero)
    /\ Val(raised).message = MsgInvalidGeometry

\* The same product without product_id: the engine finds no line.
C11_WitnessNoProductId ==
    /\ Raised
    /\ Len(work_order.lines) = 0
    /\ work_order.product_id = None
    /\ Val(work_order.product).product_type = RECTANGULAR_DUCT
    /\ Val(work_order.product).attributes.width_mm = Some(RZero)
    /\ Val(raised).message = MsgNoLines

\* A line whose sheet is 21 mm thick: the geometry error.
C11_WitnessThickness ==
    /\ Raised
    /\ Len(work_order.lines) = 1
    /\ work_order.lines[1].product.attributes.thickness_mm = Some(RInt(21))
    /\ Val(raised).message = MsgInvalidGeometry

\* --------------------------------------------------------------- C12
Payload == Val(product_in)

\* Insulation is enabled without a positive thickness: the thickness is
\* absent, null or <= 0.
InsulationLacking(attrs) ==
    /\ attrs.insulation_enabled
    /\ \/ "insulation_thickness_mm" \notin DOMAIN attrs
       \/ IsNone(attrs.insulation_thickness_mm)
       \/ RLe(Val(attrs.insulation_thickness_mm), RZero)

\* Insulation is enabled and the thickness is supplied, as null or <= 0.
SuppliedInsulationLacking(attrs) ==
    /\ attrs.insulation_enabled
    /\ "insulation_thickness_mm" \in DOMAIN attrs
    /\ \/ IsNone(attrs.insulation_thickness_mm)
       \/ RLe(Val(attrs.insulation_thickness_mm), RZero)

\* POST /products has been answered for a rectangular duct whose
\* dimensions are within bounds.
CreatedSound ==
    /\ created /= "no"
    /\ Payload.product_type = RECTANGULAR_DUCT
    /\ ~BadDimensions(Payload.spec)

\* The call has ended on a work order of one line, a rectangular duct
\* whose dimensions are within bounds.
ComputedSound ==
    /\ pc /= "ready"
    /\ Len(InputLines) = 1
    /\ InputLines[1].product.product_type = RECTANGULAR_DUCT
    /\ ~BadDimensions(InputLines[1].product.attributes)

\* C12 as stated: a rectangular duct whose dimensions are within bounds is
\* rejected, by product creation and by compute_work_order, exactly when
\* insulation is enabled and the insulation thickness is absent, null or
\* <= 0.
C12_Original_RejectedIffInsulationLacking ==
    /\ CreatedSound => (created = "rejected" <=> InsulationLacking(Payload.spec))
    /\ ComputedSound => (Raised <=> InsulationLacking(InputLines[1].product.attributes))

\* C12, what holds: such a product is rejected exactly when insulation is
\* enabled and the thickness is supplied as null or <= 0; with insulation
\* enabled and the thickness left out it is accepted, and stored with a
\* null thickness.
C12_RejectedIffSuppliedLacking ==
    /\ CreatedSound =>
          /\ created = "rejected" <=> SuppliedInsulationLacking(Payload.spec)
          /\ created = "created" =>
                /\ Len(products) = 1
                /\ "insulation_thickness_mm" \in DOMAIN products[1].attributes
                /\ "insulation_thickness_mm" \notin DOMAIN Payload.spec =>
                       IsNone(products[1].attributes.insulation_thickness_mm)
    /\ ComputedSound =>
          /\ Raised <=> SuppliedInsulationLacking(InputLines[1].product.attributes)
          /\ Raised => raised = Some(ValidationAppException(MsgInvalidGeometry))

\* Insulation enabled and the thickness left out: the product was created
\* and the report returned, with an insulation area.
C12_WitnessAbsentAccepted ==
    /\ CreatedSound /\ ComputedSound
    /\ Payload.spec.insulation_enabled
    /\ "insulation_thickness_mm" \notin DOMAIN Payload.spec
    /\ InputLines[1].product.attributes = Payload.spec
    /\ created = "created"
    /\ Returned
    /\ RLt(RZero, Report.summary.material.insulation_area_m2)

\* Insulation enabled and a null thickness: both were refused.
C12_Witness ==
    /\ CreatedSound /\ ComputedSound
    /\ Payload.spec.insulation_enabled
    /\ "insulation_thickness_mm" \in DOMAIN Payload.spec
    /\ IsNone(Payload.spec.insulation_thickness_mm)
    /\ InputLines[1].product.attributes = Payload.spec
    /\ created = "rejected"
    /\ Raised

\* Insulation disabled and a thickness of 0: both accepted.
C12_WitnessDisabled ==
    /\ CreatedSound /\ ComputedSound
    /\ ~Payload.spec.insulation_enabled
    /\ "insulation_thickness_mm" \in DOMAIN Payload.spec
    /\ Payload.spec.insulation_thickness_mm = Some(RZero)
    /\ InputLines[1].product.attributes = Payload.spec
    /\ created = "created"
    /\ Returned

\* --------------------------------------------------------------- C13
HasUnsupportedLine == \E i \in 1..Len(InputLines) : UnsupportedType(InputLines[i])

\* C13 as stated: once the call has ended on a work order one of whose
\* lines has a product of another type, the error "no calculation defined
\* for product type" was raised; and POST /products for a product of
\* another type is rejected and persists nothing.
C13_Original_AlwaysTypeError ==
    /\ (pc /= "ready" /\ HasUnsupportedLine) =>
          /\ Raised
          /\ raised = Some(ValidationAppException(MsgUnsupportedType))
    /\ (created /= "no" /\ Payload.product_type /= RECTANGULAR_DUCT) =>
          /\ created = "rejected"
          /\ products = << >>

\* C13: once the call has ended on such a work order, a validation error
\* was raised and no report returned: "no calculation defined for product
\* type" unless a line before the first line of another type is a
\* rectangular duct of invalid geometry, which raises "invalid product
\* dimensions"; and POST /products for a product of another type is
\* answered with an error and persists nothing.
C13_UnsupportedTypeRejected ==
    /\ (pc /= "ready" /\ HasUnsupportedLine) =>
          /\ Raised
          /\ result = None
          /\ raised = Some(ValidationAppException(
                IF UnsupportedType(InputLines[FirstFailing])
                THEN MsgUnsupportedType ELSE MsgInvalidGeometry))
    /\ (created /= "no" /\ Payload.product_type /= RECTANGULAR_DUCT) =>
          /\ created = "rejected"
          /\ ~IsNone(create_raised)
          /\ products = << >>

\* A product of another type with valid geometry, behind a valid line and
\* as the payload: the type error, and nothing persisted.
C13_Witness ==
    /\ Raised
    /\ Len(InputLines) = 2
    /\ FailingLines = {2}
    /\ UnsupportedType(InputLines[2]) /\ ~InvalidGeometry(InputLines[2])
    /\ Val(raised).message = MsgUnsupportedType
    /\ created = "rejected"
    /\ Payload.product_type /= RECTANGULAR_DUCT
    /\ PayloadIsValid(Payload)
    /\ Val(create_raised).message = MsgOnlyRectangular
    /\ products = << >>

\* A line of another type behind a rectangular duct of width 0: the
\* geometry error of the first line.
C13_WitnessGeometryFirst ==
    /\ Raised
    /\ Len(InputLines) = 2
    /\ ~UnsupportedType(InputLines[1]) /\ InvalidGeometry(InputLines[1])
    /\ UnsupportedType(InputLines[2])
    /\ Val(raised).message = MsgInvalidGeometry

\* --------------------------------------------------------------- C17
AttrsOf(i) == InputLines[i].product.attributes

\* 2 * (width_mm + height_mm) * length_mm / 1e6 * (1 + waste_factor)
ExpectedSheetArea(attrs, cfg) ==
    RMul(RDiv(RMul(RMul(RInt(2), RAdd(Val(attrs.width_mm), Val(attrs.height_mm))),
                   Val(attrs.length_mm)),
              RInt(1000000)),
         RAdd(RInt(1), cfg.waste_factor))

\* The test's product: 500 x 400 x 1000 with the BOM entry 0.5 at 100.
IsTestLine(line) ==
    /\ line.product.attributes.width_mm = Some(RInt(500))
    /\ line.product.attributes.height_mm = Some(RInt(400))
    /\ line.product.attributes.length_mm = Some(RInt(1000))
    /\ line.product.bom_items = TestBom
    /\ line.quantity = TestQuantity

\* C17: in a report, line i has per_unit.sheet_area_m2 =
\* 2 * (width_mm + height_mm) * length_mm / 1e6 * (1 + waste_factor) and
\* per_unit.sheet_mass_kg = that area * (thickness_mm / 1000) * steel
\* density; a work order of the one line 500 x 400 x 1000, quantity 10,
\* BOM entry 0.5 at cost 100, has bom_total 500, and with waste factor
\* 0.05 a sheet area of 1.89 per unit.
C17_PerUnitFormulas ==
    Returned =>
        /\ \A i \in 1..Len(InputLines) :
              /\ Report.lines[i].per_unit.sheet_area_m2 =
                     ExpectedSheetArea(AttrsOf(i), settings)
              /\ Report.lines[i].per_unit.sheet_mass_kg =
                     RMul(RMul(ExpectedSheetArea(AttrsOf(i), settings),
                               RDiv(Val(AttrsOf(i).thickness_mm), RInt(1000))),
                          settings.steel_density_kg_m3)
        /\ (Len(InputLines) = 1 /\ IsTestLine(InputLines[1])) =>
              /\ Report.summary.cost.bom_total = RInt(500)
              /\ settings.waste_factor = Rat(5, 100) =>
                    Report.lines[1].per_unit.sheet_area_m2 = Rat(189, 100)

\* The test's work order under waste factor 0.05 has been reported, with
\* the sheet 0.7 mm thick: 1.89 m2 and 1.89 * 0.0007 * 7850 kg per unit.
C17_Witness ==
    /\ Returned
    /\ Len(InputLines) = 1
    /\ IsTestLine(InputLines[1])
    /\ AttrsOf(1).thickness_mm = Some(Rat(7, 10))
    /\ settings.waste_factor = Rat(5, 100)
    /\ Report.lines[1].per_unit.sheet_area_m2 = Rat(189, 100)
    /\ Report.lines[1].per_unit.sheet_mass_kg = Rat(2077110, 200000)
    /\ Report.summary.cost.bom_total = RInt(500)

\* --------------------------------------------------------------- C18
\* Insulation thicknesses to put in the place of the one given.
OtherInsulationThicknesses == {None, Some(RZero), Some(RInt(20)), Some(RInt(50))}

SetInsulationThickness(product, v) ==
    [product EXCEPT !.attributes =
        [f \in DOMAIN product.attributes \cup {"insulation_thickness_mm"} |->
            IF f = "insulation_thickness_mm" THEN v ELSE product.attributes[f]]]

\* The work order with the insulation thickness of every product set to v.
WithInsulationThickness(wo, v) ==
    [wo EXCEPT
        !.lines = [i \in DOMAIN wo.lines |->
                     [wo.lines[i] EXCEPT
                         !.product = SetInsulationThickness(wo.lines[i].product, v)]],
        !.product = IF IsNone(wo.product) THEN None
                    ELSE Some(SetInsulationThickness(Val(wo.product), v))]

AreasOf(r) ==
    [summary |-> r.summary.material,
     lines |-> [i \in 1..Len(r.lines) |->
                  [per_unit |-> [sheet_area_m2 |-> r.lines[i].per_unit.sheet_area_m2,
                                 insulation_area_m2 |-> r.lines[i].per_unit.insulation_area_m2],
                   totals |-> [sheet_area_m2 |-> r.lines[i].totals.sheet_area_m2,
                               insulation_area_m2 |-> r.lines[i].totals.insulation_area_m2]]]]

\* C18: in a report, per_unit.insulation_area_m2 of a line is its
\* per_unit.sheet_area_m2 when insulation_enabled is set and 0 otherwise;
\* and the same work order with another insulation thickness, if it is
\* reported at all, is reported with the same areas.
C18_InsulationAreaGatedOnly ==
    Returned =>
        /\ \A i \in 1..Len(InputLines) :
              Report.lines[i].per_unit.insulation_area_m2 =
                 IF AttrsOf(i).insulation_enabled
                 THEN Report.lines[i].per_unit.sheet_area_m2 ELSE RZero
        /\ \A v \in OtherInsulationThicknesses :
              LET out == compute_work_order(WithInsulationThickness(work_order, v),
                                            settings, Report.header.generated_at)
              IN  IsNone(out.raised) => AreasOf(Val(out.result)) = AreasOf(Report)

\* An insulated line of thickness 20 has been reported with an insulation
\* area equal to its sheet area, and is reported with thickness 50 too.
C18_Witness ==
    /\ Returned
    /\ Len(InputLines) = 1
    /\ AttrsOf(1).insulation_enabled
    /\ "insulation_thickness_mm" \in DOMAIN AttrsOf(1)
    /\ AttrsOf(1).insulation_thickness_mm = Some(RInt(20))
    /\ RLt(RZero, Report.lines[1].per_unit.insulation_area_m2)
    /\ Report.lines[1].per_unit.insulation_area_m2 = Report.lines[1].per_unit.sheet_area_m2
    /\ IsNone(compute_work_order(WithInsulationThickness(work_order, Some(RInt(50))),
                                 settings, Report.header.generated_at).raised)

\* A line without insulation and with a thickness given: no insulation area.
C18_WitnessDisabled ==
    /\ Returned
    /\ Len(InputLines) = 1
    /\ ~AttrsOf(1).insulation_enabled
    /\ "insulation_thickness_mm" \in DOMAIN AttrsOf(1)
    /\ AttrsOf(1).insulation_thickness_mm = Some(RInt(20))
    /\ Report.lines[1].per_unit.insulation_area_m2 = RZero
    /\ RLt(RZero, Report.lines[1].per_unit.sheet_area_m2)

\* --------------------------------------------------------------- C21
\* The clock of a second call.
LaterTimestamps == {"2026-01-01T09:30:00"}

WithoutTimestamp(r) == [r EXCEPT !.header.generated_at = ""]

\* A further call on the work order and settings of the state.
Again(now) == compute_work_order(work_order, settings, now)

CauseOf(wo) ==
    LET lines == EffectiveLines(wo)
        failing == { i \in 1..Len(lines) :
                       UnsupportedType(lines[i]) \/ InvalidGeometry(lines[i]) }
        first == CHOOSE i \in failing : \A j \in failing : i <= j
    IN  IF Len(lines) = 0 THEN "no_lines"
        ELSE IF failing = {} THEN ""
        ELSE IF UnsupportedType(lines[first]) THEN "unsupported_type"
        ELSE "invalid_geometry"

\* One work order failing for each cause.
FailingExamples ==
    { WorkOrder(<< >>, None, None, None),
      WorkOrder(<< WorkOrderLine(Some(1), Some(6), 1, CatalogProduct(6)) >>, None, None, None),
      WorkOrder(<< WorkOrderLine(Some(1), Some(7), 1, CatalogProduct(7)) >>, None, None, None) }

ErrorOf(wo) == Val(compute_work_order(wo, settings, "").raised)

\* C22 as stated: the error raised has a message and a code, and its code
\* differs from the code of the error raised for a work order failing for
\* another cause.
C22_Original_CodeTellsCauses ==
    Raised =>
        /\ Val(raised).message /= ""
        /\ Val(raised).code /= ""
        /\ \A wo \in FailingExamples :
              CauseOf(wo) /= CauseOf(work_order) => ErrorOf(wo).code /= Val(raised).code

\* C22: the error raised is a ValidationAppException whose message is the
\* one of its cause, and whose status 422 and code "validation_error" are
\* the same for the three causes: against a work order failing for
\* another cause the message differs, the status and the code do not.
C22_MessageTellsCauses ==
    Raised =>
        /\ Val(raised).message =
              (CASE CauseOf(work_order) = "no_lines" -> MsgNoLines
                 [] CauseOf(work_order) = "unsupported_type" -> MsgUnsupportedType
                 [] CauseOf(work_order) = "invalid_geometry" -> MsgInvalidGeometry)
        /\ Val(raised).status_code = 422
        /\ Val(raised).code = "validation_error"
        /\ \A wo \in FailingExamples :
              /\ ErrorOf(wo).code = Val(raised).code
              /\ ErrorOf(wo).status_code = Val(raised).status_code
              /\ CauseOf(wo) /= CauseOf(work_order) <=>
                    ErrorOf(wo).message /= Val(raised).message

\* The geometry error raised behind a valid line.
C22_Witness ==
    /\ Raised
    /\ Len(InputLines) = 2
    /\ CauseOf(work_order) = "invalid_geometry"
    /\ FailingLines = {2}
    /\ Val(raised).code = "validation_error"
    /\ Val(raised).message = MsgInvalidGeometry

\* --------------------------------------------------------------- C27
\* The line the legacy fields stand for.
LegacyLine == WorkOrderLine(None, work_order.product_id, Val(work_order.quantity),
                            Val(work_order.product))

\* C27: once the call has ended on a work order with no lines: if
\* product_id, quantity and product are all present and non-zero, it ended
\* as the call on the one line (product, quantity) ends, with a report of
\* line_count 1 when the product passes the checks of a line; if one of
\* the three is missing or zero, the no-lines error was raised, whatever
\* the geometry of the product.
C27_LegacyFallbackIff ==
    (pc /= "ready" /\ Len(work_order.lines) = 0) =>
        IF ~NoLegacyProduct
        THEN LET one == compute_work_order([work_order EXCEPT !.lines = << LegacyLine >>],
                                           settings, "")
             IN  /\ IsNone(one.raised) = Returned
                 /\ Raised => raised = one.raised
                 /\ (~UnsupportedType(LegacyLine) /\ ~InvalidGeometry(LegacyLine)) => Returned
                 /\ Returned =>
                       /\ Report.header.line_count = 1
                       /\ Len(Report.lines) = 1
                       /\ Report.lines[1].quantity = Val(work_order.quantity)
                       /\ Report.lines[1].product_id = Val(work_order.product).id
                       /\ Report.summary = Val(one.result).summary
                       /\ Report.bom_summary = Val(one.result).bom_summary
        ELSE /\ Raised
             /\ result = None
             /\ raised = Some(ValidationAppException(MsgNoLines))

\* The legacy fallback has returned the report of the one line.
C27_Witness ==
    /\ Returned
    /\ Len(work_order.lines) = 0
    /\ work_order.product_id = Some(1)
    /\ work_order.quantity = Some(3)
    /\ Report.header.line_count = 1
    /\ Report.lines[1].quantity = 3

\* A product of width 0 is attached, product_id is unset: the no-lines
\* error.
C27_WitnessNoProductId ==
    /\ Raised
    /\ Len(work_order.lines) = 0
    /\ work_order.product_id = None
    /\ work_order.quantity = Some(3)
    /\ ~IsNone(work_order.product)
    /\ BadDimensions(Val(work_order.product).attributes)
    /\ Val(raised).message = MsgNoLines

\* --------------------------------------------------------------- C29
AllPriced == 1..Len(Report.bom_summary.priced_items)
PricedTotalCosts == [i \in AllPriced |-> PricedItem(i).total_cost]
\* The priced entries of the key of item i all carry the same cost.
OneCost(i) ==
    \A a, b \in PricedAt(ItemKey(i)) :
        InputEntries[a].item.cost_per_unit = InputEntries[b].item.cost_per_unit

C29_WitnessTwoCosts ==
    /\ Returned
    /\ \E i \in AllPriced :
          /\ ~OneCost(i)
          /\ PricedItem(i).total_cost /=
                RMul(Val(PricedItem(i).cost_per_unit), PricedItem(i).total_quantity)

\* ------------------------------------------------ requests and answers
IsRequest(r, op) == ~IsNone(r) /\ Val(r).op = op
Refused(a, status) ==
    ~IsNone(a) /\ ~IsNone(Val(a).raised) /\ Val(Val(a).raised).status_code = status
Accepted(a) == ~IsNone(a) /\ IsNone(Val(a).raised)
ProductMissing(db, line) == IsNone(FindProduct(db, Some(line.product_id)))

\* C23: create_work_order on a request without lines and without the
\* legacy product_id and quantity fails with a validation error (422); on
\* a request one of whose lines names a product that does not exist it
\* fails with a not-found error (404); in both cases the tables of work
\* orders and of work-order lines are left as they were, whatever valid
\* lines precede the failing one.
C23_RefusalStep ==
    (IsRequest(request', "post_work_order") /\ WorkOrderCreateIsValid(Val(request').body))
    => LET body == Val(request').body
           lines == RequestLines(body)
           kept == work_orders' = work_orders /\ work_order_lines' = work_order_lines
       IN  /\ (Len(body.lines) = 0 /\ (IsNone(body.product_id) \/ IsNone(body.quantity)))
              => /\ Refused(response', 422)
                 /\ Val(Val(response').raised).code = "validation_error"
                 /\ kept
           /\ (\E i \in 1..Len(lines) : ProductMissing(Db, lines[i]))
              => /\ Refused(response', 404)
                 /\ Val(Val(response').raised).code = "not_found"
                 /\ kept
C23_RefusedPersistsNothing == [][C23_RefusalStep]_vars

\* A request whose first line is valid and whose second names a missing
\* product was answered 404, with work orders in the database.
C23_Witness ==
    /\ IsRequest(request, "post_work_order")
    /\ Len(Val(request).body.lines) = 2
    /\ ~ProductMissing(Db, Val(request).body.lines[1])
    /\ ProductMissing(Db, Val(request).body.lines[2])
    /\ Refused(response, 404)
    /\ Len(work_orders) > 0
C23_WitnessNoLines ==
    /\ IsRequest(request, "post_work_order")
    /\ Len(Val(request).body.lines) = 0
    /\ IsNone(Val(request).body.product_id)
    /\ Refused(response, 422)
    /\ Val(Val(response).raised).message = MsgNeedLine

\* The rows a step added to a table.
AddedRows(before, after) == SubSeq(after, Len(before) + 1, Len(after))
LegacyGiven(body) == ~IsNone(body.product_id) /\ ~IsNone(body.quantity)

\* C24: create_work_order on a legacy payload (product_id and quantity, no
\* lines) whose product exists stores one work order with exactly one
\* line, of that product_id and quantity; on a payload with at least one
\* line it stores the lines of the payload and nothing else: the legacy
\* product_id and quantity make no line and are not stored.
C24_LegacyStep ==
    (IsRequest(request', "post_work_order") /\ WorkOrderCreateIsValid(Val(request').body))
    => LET body == Val(request').body
           orders == AddedRows(work_orders, work_orders')
           rows == AddedRows(work_order_lines, work_order_lines')
       IN  /\ (Len(body.lines) = 0 /\ LegacyGiven(body)
               /\ ~IsNone(FindProduct(Db, body.product_id)))
              => /\ Accepted(response')
                 /\ Len(orders) = 1
                 /\ Len(rows) = 1
                 /\ rows[1].work_order_id = orders[1].id
                 /\ rows[1].product_id = Val(body.product_id)
                 /\ rows[1].quantity = Val(body.quantity)
                 /\ Len(Val(Val(response').body).lines) = 1
           /\ (Len(body.lines) > 0 /\ Accepted(response'))
              => /\ Len(orders) = 1
                 /\ Len(rows) = Len(body.lines)
                 /\ \A i \in 1..Len(rows) :
                       /\ rows[i].work_order_id = orders[1].id
                       /\ rows[i].product_id = body.lines[i].product_id
                       /\ rows[i].quantity = body.lines[i].quantity
                 /\ IsNone(orders[1].product_id) /\ IsNone(orders[1].quantity)
                 /\ Len(Val(Val(response').body).lines) = Len(body.lines)
C24_LegacyFallbackOneLine == [][C24_LegacyStep]_vars

\* A legacy payload was accepted.
C24_Witness ==
    /\ IsRequest(request, "post_work_order")
    /\ Len(Val(request).body.lines) = 0
    /\ LegacyGiven(Val(request).body)
    /\ Accepted(response)
    /\ Len(Val(Val(response).body).lines) = 1
\* A payload with lines and with the legacy fields was accepted.
C24_WitnessLinesAndLegacy ==
    /\ IsRequest(request, "post_work_order")
    /\ Len(Val(request).body.lines) = 2
    /\ LegacyGiven(Val(request).body)
    /\ Accepted(response)

\* The lines of an answer are the submitted lines, in their order.
SameLines(shown, lines) ==
    /\ Len(shown) = Len(lines)
    /\ \A i \in 1..Len(lines) :
          /\ shown[i].product_id = Some(lines[i].product_id)
          /\ shown[i].quantity = lines[i].quantity
\* The work orders created by a request.
CreatedIds == { i \in 1..Len(work_orders) : ~IsNone(submitted[i]) }
MrpOf(id) == calculate_mrp(Db, id, settings, "2026-01-01T08:00:00")

\* C25: a work order created with the lines L1..Ln is returned by
\* create_work_order, and by get_work_order on its id in every later state,
\* with exactly those n lines in that order, each with the submitted
\* product_id and quantity; the MRP report computed for it lists the n
\* lines in the same order, numbered 1..n.
C25_LinesKeptInOrder ==
    /\ (IsRequest(request, "post_work_order") /\ Accepted(response))
       => SameLines(Val(Val(response).body).lines, RequestLines(Val(request).body))
    /\ \A id \in CreatedIds :
          LET lines == RequestLines(Val(submitted[id]))
              got == get_work_order(Db, id)
              mrp == MrpOf(id)
          IN  /\ IsNone(got.raised)
              /\ SameLines(Val(got.body).lines, lines)
              /\ IsNone(mrp.raised)
                 => /\ SameLines(Val(mrp.body).lines, lines)
                    /\ \A i \in 1..Len(lines) : Val(mrp.body).lines[i].line_number = i

\* Two work orders were created, the second with two different lines, and
\* the report of the second was computed.
C25_Witness ==
    /\ Len(work_orders) = 2
    /\ 2 \in CreatedIds
    /\ Len(Val(submitted[2]).lines) = 2
    /\ Val(submitted[2]).lines[1] /= Val(submitted[2]).lines[2]
    /\ IsRequest(request, "calculate_mrp") /\ Val(request).id = 2
    /\ Accepted(response)
    /\ Len(Val(Val(response).body).lines) = 2

\* A work order row with the legacy product_id and quantity.
IsLegacyRow(row) == ~IsNone(row.product_id) /\ ~IsNone(row.quantity)
IsPrefix(short, long) ==
    Len(short) <= Len(long) /\ SubSeq(long, 1, Len(short)) = short

\* C26: migrate_legacy_work_orders is idempotent.  After a run on any
\* database, every work order with the legacy product_id and quantity that
\* had no line has exactly one line, of that product_id and quantity; a
\* work order that had lines, or lacks a legacy field, has the lines it
\* had; no other row is touched; and a further run changes nothing.
C26_MigrationIdempotent ==
    LET once == migrate_legacy_work_orders(Db)
        twice == migrate_legacy_work_orders(once)
    IN  /\ twice = once
        /\ once.work_orders = work_orders
        /\ once.products = products
        /\ IsPrefix(work_order_lines, once.work_order_lines)
        /\ \A i \in 1..Len(work_orders) :
              LET row == work_orders[i]
                  before == LineRowsOf(Db, row.id)
                  after == LineRowsOf(once, row.id)
              IN  IF IsLegacyRow(row) /\ Len(before) = 0
                  THEN /\ Len(after) = 1
                       /\ after[1].product_id = Val(row.product_id)
                       /\ after[1].quantity = Val(row.quantity)
                  ELSE after = before

\* The migration has run on a database with a legacy work order that had
\* no line and with one that had its line: each has one line now.
C26_Witness ==
    /\ IsRequest(request, "init_db")
    /\ Len(work_orders) = 2
    /\ work_orders[1].quantity = Some(5) /\ work_orders[2].quantity = Some(3)
    /\ Len(work_order_lines) = 2
    /\ work_order_lines[1].work_order_id = 2 /\ work_order_lines[1].quantity = 3
    /\ work_order_lines[2].work_order_id = 1 /\ work_order_lines[2].quantity = 5

\* The MRP of a work order fails with the error of an invalid geometry.
GeometryFails(id) ==
    LET mrp == MrpOf(id)
    IN  ~IsNone(mrp.raised) /\ Val(mrp.raised).message = MsgInvalidGeometry
\* A stored product with insulation enabled and a null thickness.
NullThickness(product) ==
    /\ product.attributes.insulation_enabled
    /\ IsNone(product.attributes.insulation_thickness_mm)
\* The attributes without the key insulation_thickness_mm.
WithoutThickness(attrs) ==
    [f \in DOMAIN attrs \ {"insulation_thickness_mm"} |-> attrs[f]]

\* C28 as stated: computing the MRP of a work order created on created
\* products never fails with the error of an invalid geometry.
C28_Original_StoredProductsComputable ==
    \A id \in CreatedIds : ~GeometryFails(id)

\* C28, the part that holds: a create_product that fails stores no
\* product, one that succeeds stores one, and every stored product passes
\* the validation of the geometry but for a null insulation thickness with
\* insulation enabled.
C28_StoredSound ==
    \A i \in 1..Len(products) :
       /\ products[i].product_type = RECTANGULAR_DUCT
       /\ SpecIsValid(WithoutThickness(products[i].attributes))
       /\ SpecIsValid(products[i].attributes) \/ NullThickness(products[i])
C28_CreateStep ==
    /\ (IsRequest(request', "post_product") /\ ~Accepted(response'))
       => products' = products
    /\ (IsRequest(request', "post_product") /\ Accepted(response'))
       => Len(products') = Len(products) + 1
    /\ C28_StoredSound
C28_FailedCreateStoresNothing == [][C28_CreateStep]_vars

\* The MRP of a work order fails on the geometry only if one of its lines
\* has a product with a null insulation thickness.
C28_GeometryFailsOnlyOnNullThickness ==
    \A id \in 1..Len(work_orders) :
       GeometryFails(id)
       => \E r \in 1..Len(work_order_lines) :
             /\ work_order_lines[r].work_order_id = id
             /\ NullThickness(Val(FindProduct(Db, Some(work_order_lines[r].product_id))))

\* A create_product was refused with a product already stored.
C28_Witness ==
    /\ IsRequest(request, "post_product")
    /\ Refused(response, 422)
    /\ Len(products) > 0
\* The product created without an insulation thickness fails in the MRP.
C28_WitnessNullThickness ==
    /\ \E id \in CreatedIds : GeometryFails(id)
    /\ IsRequest(request, "calculate_mrp")
    /\ Refused(response, 422)

\* ---------------------------------------------------- the launcher lock
\* A launcher process that has been started and has neither ended nor been
\* killed.
LiveLauncher(q) == q \in Launchers /\ launcher[q].pc \in LivePcs
\* acquire_lock has returned a path to the launcher and the launcher runs
\* the application.
HoldsLock(p) == launcher[p].pc = "running"
\* The lock file names a live launcher other than p.
NamesOtherLive(p) ==
    ~IsNone(lock_file) /\ Val(lock_file) /= p /\ LiveLauncher(Val(lock_file))
Moves(p, from, to) == launcher[p].pc = from /\ launcher'[p].pc = to

C30_MutualExclusion ==
    \A p, q \in Launchers : (HoldsLock(p) /\ HoldsLock(q)) => p = q
C30_RefusedWhileLive ==
    \A p \in Launchers : Moves(p, "write_text", "running") => ~NamesOtherLive(p)
C30_ReleaseSafe ==
    \A p \in Launchers :
       (Moves(p, "release_unlink", "atexit_exists") \/ Moves(p, "atexit_unlink", "exited"))
       => ~NamesOtherLive(p)

\* C30 as stated: under every interleaving at most one live launcher
\* holds the lock, no launcher gets the lock while the lock file names
\* another live launcher, and no release_lock removes a lock file that
\* names another live launcher.
C30_Original_SingleInstance ==
    []C30_MutualExclusion /\ [][C30_RefusedWhileLive /\ C30_ReleaseSafe]_vars

\* C30, the part that holds: a launcher is refused only on reading the
\* PID of another live launcher; on reading a dead PID, or on finding no
\* readable file, it goes on to take the lock over; and the lock file
\* holds nothing but the stale PID or the PID of a launcher that wrote it.
C30_CheckStep ==
    \A p \in Launchers :
       /\ Moves(p, "pid_alive", "refused")
          => launcher[p].pid /= p /\ LiveLauncher(launcher[p].pid)
       /\ (launcher[p].pc = "pid_alive" /\ ~LiveLauncher(launcher[p].pid)
           /\ launcher'[p].pc /= "pid_alive")
          => launcher'[p].pc \in {"unlink", "killed"}
       /\ Moves(p, "unlink", "write_text") => IsNone(lock_file')
       /\ Moves(p, "write_text", "running") => lock_file' = Some(p)
       /\ (~IsNone(lock_file) /\ Val(lock_file) \in Launchers)
          => launcher[Val(lock_file)].pc
                \in {"running", "release_exists", "release_unlink", "killed"}
C30_RefusedOnlyByLivePid == [][C30_CheckStep]_vars

\* A launcher was refused while the other runs the application and is
\* named by the lock file.
C30_Witness ==
    \E p, q \in Launchers :
       /\ launcher[p].pc = "refused"
       /\ HoldsLock(q)
       /\ lock_file = Some(q)
\* A launcher has taken over a stale lock.
C30_WitnessTakeover ==
    \E p \in Launchers :
       HoldsLock(p) /\ launcher[p].pid = StalePid /\ lock_file = Some(p)
\* Two launchers run the application at once.
C30_WitnessBothRunning ==
    \E p, q \in Launchers : p /= q /\ HoldsLock(p) /\ HoldsLock(q)

====
